---- MODULE Spec2Model ----
(***************************************************************************)
(* Replica orchestration of release-server-service: the file-backed        *)
(* ReplicaStateManager, the ReplicaManagerV2 coordinator with its monitor  *)
(* loop, and the replica_worker bring-up process.                          *)
(*                                                                         *)
(* Spec      : the lifecycle machine. Coordinator coroutines run on one    *)
(*             asyncio loop, so at most one of them is between two of its  *)
(*             store accesses at a time (co); Worker and workload          *)
(*             processes are separate OS processes and interleave with     *)
(*             every step. Each store call is one step here.               *)
(* LiveSpec  : Spec with the fairness the OS scheduler and the asyncio     *)
(*             loop give to running processes and started coroutines.      *)
(* StoreSpec : the state file of one existing replica at system-call       *)
(*             granularity (exists / open / flock / read / truncate /      *)
(*             write), updated and read by several client processes.       *)
(* StoreCreateSpec : the same file while create_replica_state writes it    *)
(*             for the first time and other processes read or list it.     *)
(* StoreApiSpec : the calls of ReplicaStateManager, each applied whole.     *)
(* MonitorSpec : the ticks of the Monitor over entities whose bring-up has *)
(*             ended, while workloads die, metadata files are written and  *)
(*             record files are damaged.                                   *)
(* RequestSpec : get / health check / stop / delete over the same entities.*)
(* PortlessSpec : Spec with a launcher whose handle advertises no endpoint.*)
(* SpawnFailSpec : LiveSpec on a host where spawning the Worker can fail.  *)
(* DeniedSpec : Monitor ticks over workloads that refuse signals (EPERM).  *)
(* MonitorLiveSpec : LiveSpec with a Monitor that ticks again and again.   *)
(* ListSpec / ListSettledSpec : Spec / RequestSpec with list_replicas.     *)
(* PollSpec, HandleStopSpec, BuildCmdSpec : one function each:             *)
(*             poll_health_endpoint, LocalServerHandle.stop and            *)
(*             _build_cmd_for_mode, over all their inputs.                 *)
(* MemSpec   : the in-memory ReplicaManager of replica_manager.py.         *)
(***************************************************************************)
EXTENDS Integers, Sequences, FiniteSets, TLC

\* ------------------------------------------------------------------ bounds
MaxReplicas == 2
MaxCreates == 1
MaxPolls == 2
MaxClients == 2
MaxUpdates == 2
MaxClock == 2

Replicas == 1..MaxReplicas

VARIABLES
    rec,        \* state_dir/<id>.json : parsed content, or NoRec when absent
    wpidFile,   \* state_dir/<id>.worker.pid : the pid written, 0 when absent
    nextId,     \* ids handed out so far (uuid4: never reused)
    alive,      \* the set of pids of live OS processes
    wk,         \* per replica: the Worker process (pc and locals)
    co,         \* the coordinator coroutine that is in flight, if any
    ret,        \* what the last finished coordinator call returned
    hist,       \* history: facts about the past the properties refer to
    sfile,      \* StoreSpec: the state file (inode content behind the path)
    slock,      \* StoreSpec: flock holders of the state file
    cl,         \* StoreSpec: the client processes
    now,        \* StoreSpec: the wall clock datetime.now() reads
    meta,       \* <workdir>/model_dir/cerebras_logs/run_meta.json of each replica
    mon,        \* the monitoring task of the coordinator
    denied,     \* the live pids for which os.kill answers EPERM
    call        \* the frame of the function a single-function specification
                \* runs (PollSpec, HandleStopSpec, BuildCmdSpec), or the
                \* replicas of the in-memory manager (MemSpec); NoCall elsewhere

vars == <<rec, wpidFile, nextId, alive, wk, co, ret, hist, sfile, slock, cl, now, meta, mon,
          denied, call>>
lifeVars == <<rec, wpidFile, nextId, alive, wk, co, ret, hist, meta, mon, denied, call>>
monVars == <<meta, mon, denied>>
storeVars == <<sfile, slock, cl, now, call>>
\* everything but call
sysVars == <<rec, wpidFile, nextId, alive, wk, co, ret, hist, meta, mon, denied,
             sfile, slock, cl, now>>

\* ------------------------------------------------------------- dictionaries
NoRec == [absent |-> TRUE]
NoCall == [fn |-> "none"]
\* a state file whose bytes are not a JSON document
Corrupt == [corrupt |-> TRUE]
None == "None"
NA == "NA"

\* dict.get(k, d)
Get(state, k, d) == IF k \in DOMAIN state THEN state[k] ELSE d

\* dict.update(updates)
DictUpdate(state, updates) ==
    [k \in (DOMAIN state) \cup (DOMAIN updates) |->
        IF k \in DOMAIN updates THEN updates[k] ELSE state[k]]

\* ---------------------------------------------------- ReplicaStateManager
\* (one call = one step; StoreSpec below justifies the atomicity of updates)

\* create_replica_state: {"replica_id", "status": "pending", ..., **initial_state}
\* (created_at / updated_at are wall-clock stamps and are left out)
NewRecord(id, initial_state) ==
    DictUpdate([replica_id |-> id, status |-> "pending"], initial_state)

CreateRecord(store, id, initial_state) ==
    [store EXCEPT ![id] = NewRecord(id, initial_state)]

\* update_replica_state: json.load raises on a file that is not JSON, before
\* anything is written
UpdateRaises(store, id) == store[id] = Corrupt

\* update_replica_state: returns without writing when the file does not exist
UpdateRecord(store, id, updates) ==
    IF store[id] = NoRec \/ UpdateRaises(store, id)
        THEN store
        ELSE [store EXCEPT ![id] = DictUpdate(store[id], updates)]

\* get_replica_state: None when the file does not exist, and None ("except
\* Exception") when it cannot be parsed
ReadRecordRaw(store, id) == store[id]

ReadRecord(store, id) == IF store[id] = Corrupt THEN NoRec ELSE store[id]

\* list_replica_states: every readable record, keyed by id
ListRecords(store) ==
    [id \in {i \in Replicas : ReadRecord(store, i) # NoRec} |-> ReadRecord(store, id)]

DeleteRecordKeepsPidFile(files, id) ==
    [state |-> [files.state EXCEPT ![id] = NoRec], pid |-> files.pid]

\* delete_replica_state: unlinks the state file and the worker pid file
DeleteRecord(files, id) ==
    [state |-> [files.state EXCEPT ![id] = NoRec],
     pid |-> [files.pid EXCEPT ![id] = 0]]

\* ---------------------------------------------------------------- processes
WorkerPid(id) == id
WorkloadPid(id) == MaxReplicas + id
Pids == {WorkerPid(id) : id \in Replicas} \cup {WorkloadPid(id) : id \in Replicas}
IsWorkerPid(pid) == \E id \in Replicas : pid = WorkerPid(id)

CheckPidAliveAlways(live, pid) == TRUE

\* os.kill(pid, 0): returns, or raises ProcessLookupError or PermissionError
Signal0(live, pid) ==
    IF pid \notin live THEN "ProcessLookupError"
    ELSE IF pid \in denied THEN "PermissionError" ELSE "ok"

\* _check_pid_alive: os.kill(pid, 0); any OSError is "dead", PermissionError
\* included
CheckPidAlive(live, pid) == Signal0(live, pid) = "ok"

\* is_process_alive (health.py): pid <= 0 is dead, no such process is dead,
\* permission denied is alive
IsProcessAlive(live, pid) ==
    pid > 0 /\ Signal0(live, pid) \in {"ok", "PermissionError"}

\* is_worker_alive: no pid file is dead; no such process and permission denied
\* are dead
IsWorkerAlive(live, files, id) ==
    files[id] # 0 /\ Signal0(live, files[id]) = "ok"

\* The sets of live processes os.kill(pid, sig) can leave behind. A Worker has the
\* default disposition for SIGTERM and dies; a workload is an arbitrary server and
\* may handle or ignore SIGTERM; SIGKILL always kills. A pid that is not alive
\* raises ProcessLookupError and a pid that may not be signalled raises
\* PermissionError; both callers catch both.
Kill(live, pid, sig) ==
    IF pid \notin live \/ pid \in denied THEN {live}
    ELSE IF sig = "SIGKILL" \/ IsWorkerPid(pid) THEN {live \ {pid}}
    ELSE {live \ {pid}, live}

\* ------------------------------------------------------------------ Worker
\* replica_worker.main. pc names the statement the process executes next.
NoWorker == [pc |-> "none", port |-> 0, base_url |-> None, replica_pid |-> 0,
             polls |-> 0, healthy |-> FALSE, err |-> "", exit |-> -1,
             wrote |-> <<>>]

Port == 8000

\* LocalServerHandle.base_url
BaseUrl(port) == IF port # 0 THEN "http://127.0.0.1" ELSE None

\* _make_external_endpoint: "NA" without a base_url, else 127.0.0.1 -> fqdn
MakeExternalEndpoint(base_url) ==
    IF base_url = None THEN NA
    ELSE IF base_url = "http://127.0.0.1" THEN "http://fqdn" ELSE base_url

Running(id) == WorkerPid(id) \in alive

WorkerExitZero(w, code) == [w EXCEPT !.pc = "exited", !.exit = 0]

\* sys.exit(code)
WorkerExit(w, code) == [w EXCEPT !.pc = "exited", !.exit = code]

\* The statuses this Worker has written, in order: update_replica_state writes
\* only when the state file exists and parses
Wrote(w, store, id, status) ==
    IF store[id] = NoRec \/ UpdateRaises(store, id) THEN w
    ELSE [w EXCEPT !.wrote = Append(@, status)]

\* lines 275-279: the first write of the Worker
WorkerCreating(id) ==
    /\ Running(id) /\ wk[id].pc = "boot"
    /\ rec' = UpdateRecord(rec, id, [status |-> "creating", worker_started_at |-> TRUE])
    /\ wk' = [wk EXCEPT ![id] = [Wrote(wk[id], rec, id, "creating") EXCEPT
                                    !.pc = "provision"]]
    /\ UNCHANGED <<wpidFile, nextId, alive, co, ret, hist, storeVars, monVars>>

\* lines 281-349: load the request, deploy the environment, install the wheels.
\* Any of these may raise. (The update of venv_path/python_exec on success writes
\* two keys nothing else reads and is left out.)
WorkerProvision(id) ==
    /\ Running(id) /\ wk[id].pc = "provision"
    /\ \E ok \in BOOLEAN :
         wk' = [wk EXCEPT ![id] =
                  IF ok THEN [@ EXCEPT !.pc = "starting"]
                  ELSE [@ EXCEPT !.pc = "except", !.err = "provisioning failed"]]
    /\ UNCHANGED <<rec, wpidFile, nextId, alive, co, ret, hist, storeVars, monVars>>

WorkerStartingSilent(id) ==
    /\ Running(id) /\ wk[id].pc = "starting"
    /\ wk' = [wk EXCEPT ![id].pc = "launch"]
    /\ UNCHANGED <<rec, wpidFile, nextId, alive, co, ret, hist, storeVars, monVars>>

\* line 353
WorkerStarting(id) ==
    /\ Running(id) /\ wk[id].pc = "starting"
    /\ rec' = UpdateRecord(rec, id, [status |-> "starting"])
    /\ wk' = [wk EXCEPT ![id] = [Wrote(wk[id], rec, id, "starting") EXCEPT
                                    !.pc = "launch"]]
    /\ UNCHANGED <<wpidFile, nextId, alive, co, ret, hist, storeVars, monVars>>

\* create_server_handle up to asyncio.create_subprocess_exec (server_factory 1001-1104,
\* 690-810): raises (missing platform_config, launcher failure) or starts the workload
WorkerLaunch(id) ==
    /\ Running(id) /\ wk[id].pc = "launch"
    /\ \/ /\ wk' = [wk EXCEPT ![id].pc = "except", ![id].err = "launch failed"]
          /\ alive' = alive
       \/ /\ wk' = [wk EXCEPT ![id].pc = "launched", ![id].port = Port]
          /\ alive' = alive \cup {WorkloadPid(id)}
    /\ UNCHANGED <<rec, wpidFile, nextId, co, ret, hist, storeVars, monVars>>

\* The launcher hands back a handle that advertises no port, hence no base_url
\* (worker line 360 reads base_url with a default of None). LocalServerHandle.create
\* always picks a port, so only PortlessSpec takes this step.
WorkerLaunchPortless(id) ==
    /\ Running(id) /\ wk[id].pc = "launch"
    /\ wk' = [wk EXCEPT ![id].pc = "launched", ![id].port = 0]
    /\ alive' = alive \cup {WorkloadPid(id)}
    /\ UNCHANGED <<rec, wpidFile, nextId, co, ret, hist, storeVars, monVars>>

\* server_factory 817-852 and worker 360-362: after the 0.5 s sleep a workload that
\* has exited raises; otherwise the handle exists and its pid and base_url are read
WorkerLaunchCheck(id) ==
    /\ Running(id) /\ wk[id].pc = "launched"
    /\ wk' = [wk EXCEPT ![id] =
                IF WorkloadPid(id) \notin alive
                THEN [@ EXCEPT !.pc = "except", !.err = "Server process died on startup"]
                ELSE [@ EXCEPT !.pc = "record", !.base_url = BaseUrl(wk[id].port),
                                !.replica_pid = WorkloadPid(id)]]
    /\ UNCHANGED <<rec, wpidFile, nextId, alive, co, ret, hist, storeVars, monVars>>

\* lines 364-371
WorkerRecordPid(id) ==
    /\ Running(id) /\ wk[id].pc = "record"
    /\ rec' = UpdateRecord(rec, id, [base_url |-> wk[id].base_url, port |-> wk[id].port,
                                     replica_pid |-> wk[id].replica_pid])
    /\ wk' = [wk EXCEPT ![id].pc = "branch"]
    /\ UNCHANGED <<wpidFile, nextId, alive, co, ret, hist, storeVars, monVars>>

ReadyUpdate(base_url) ==
    [status |-> "ready", display_status |-> "Active",
     endpoint |-> IF base_url # None THEN MakeExternalEndpoint(base_url) ELSE NA,
     ready_at |-> TRUE]

WorkerBranchAlwaysWaits(id) ==
    /\ Running(id) /\ wk[id].pc = "branch"
    /\ rec' = UpdateRecord(rec, id, [status |-> "waiting_for_ready"])
    /\ wk' = [wk EXCEPT ![id] =
                [Wrote(wk[id], rec, id, "waiting_for_ready") EXCEPT !.pc = "poll"]]
    /\ UNCHANGED <<wpidFile, nextId, alive, co, ret, hist, storeVars, monVars>>

\* lines 376-378 and 413-423: request.wait_for_ready is read here for the only time
WorkerBranch(id) ==
    /\ Running(id) /\ wk[id].pc = "branch"
    /\ \E wait_for_ready \in BOOLEAN :
         IF wait_for_ready /\ wk[id].base_url # None
         THEN /\ rec' = UpdateRecord(rec, id, [status |-> "waiting_for_ready"])
              /\ wk' = [wk EXCEPT ![id] =
                          [Wrote(wk[id], rec, id, "waiting_for_ready") EXCEPT
                              !.pc = "poll"]]
         ELSE /\ rec' = UpdateRecord(rec, id, ReadyUpdate(wk[id].base_url))
              /\ wk' = [wk EXCEPT ![id] =
                          [Wrote(wk[id], rec, id, "ready") EXCEPT !.pc = "diag"]]
    /\ UNCHANGED <<wpidFile, nextId, alive, co, ret, hist, storeVars, monVars>>

\* poll_health_endpoint, one iteration of its loop (health.py 65-97). The deadline
\* passes after MaxPolls iterations.
WorkerPoll(id) ==
    /\ Running(id) /\ wk[id].pc = "poll"
    /\ IF wk[id].polls >= MaxPolls
       THEN wk' = [wk EXCEPT ![id].pc = "polled", ![id].healthy = FALSE]
       ELSE IF ~IsProcessAlive(alive, wk[id].replica_pid)
       THEN wk' = [wk EXCEPT ![id].pc = "polled", ![id].healthy = FALSE]
       ELSE \E resp \in {"200", "503", "ClientError"} :
              wk' = [wk EXCEPT ![id] =
                       IF resp = "200" THEN [@ EXCEPT !.pc = "polled", !.healthy = TRUE]
                       ELSE [@ EXCEPT !.polls = @ + 1]]
    /\ UNCHANGED <<rec, wpidFile, nextId, alive, co, ret, hist, storeVars, monVars>>

\* lines 390-412
WorkerHealthResult(id) ==
    /\ Running(id) /\ wk[id].pc = "polled"
    /\ IF wk[id].healthy
       THEN /\ rec' = UpdateRecord(rec, id,
                        [status |-> "ready", display_status |-> "Active",
                         endpoint |-> MakeExternalEndpoint(wk[id].base_url),
                         ready_at |-> TRUE])
            /\ wk' = [wk EXCEPT ![id] =
                        [Wrote(wk[id], rec, id, "ready") EXCEPT !.pc = "diag"]]
            /\ alive' = alive
       ELSE /\ rec' = UpdateRecord(rec, id,
                        [status |-> "unhealthy", display_status |-> "Failed",
                         endpoint |-> MakeExternalEndpoint(wk[id].base_url),
                         error_message |-> "Health check failed within timeout"])
            /\ wk' = [wk EXCEPT ![id] =
                        WorkerExit(Wrote(wk[id], rec, id, "unhealthy"), 1)]
            /\ alive' = alive \ {WorkerPid(id)}
    /\ UNCHANGED <<wpidFile, nextId, co, ret, hist, storeVars, monVars>>

\* lines 425-438: request.run_diagnostics is read here; run_diagnostics never raises
WorkerDiagnostics(id) ==
    /\ Running(id) /\ wk[id].pc = "diag"
    /\ \E run_diagnostics \in BOOLEAN, diagnostics \in {None, "payload"} :
         rec' = IF run_diagnostics /\ wk[id].base_url # None
                THEN UpdateRecord(rec, id, [diagnostics |-> diagnostics])
                ELSE rec
    /\ wk' = [wk EXCEPT ![id] = WorkerExit(@, 0)]
    /\ alive' = alive \ {WorkerPid(id)}
    /\ UNCHANGED <<wpidFile, nextId, co, ret, hist, storeVars, monVars>>

WorkerExceptNoMessage(id) ==
    /\ Running(id) /\ wk[id].pc = "except"
    /\ rec' = UpdateRecord(rec, id,
                [status |-> "failed", display_status |-> "Failed", endpoint |-> NA])
    /\ wk' = [wk EXCEPT ![id] = WorkerExit(Wrote(wk[id], rec, id, "failed"), 1)]
    /\ alive' = alive \ {WorkerPid(id)}
    /\ UNCHANGED <<wpidFile, nextId, co, ret, hist, storeVars, monVars>>

\* lines 440-451
WorkerExcept(id) ==
    /\ Running(id) /\ wk[id].pc = "except"
    /\ rec' = UpdateRecord(rec, id,
                [status |-> "failed", display_status |-> "Failed", endpoint |-> NA,
                 error_message |-> wk[id].err])
    /\ wk' = [wk EXCEPT ![id] = WorkerExit(Wrote(wk[id], rec, id, "failed"), 1)]
    /\ alive' = alive \ {WorkerPid(id)}
    /\ UNCHANGED <<wpidFile, nextId, co, ret, hist, storeVars, monVars>>

\* The Worker process is killed from outside the service (or crashes)
WorkerKilled(id) ==
    /\ Running(id)
    /\ alive' = alive \ {WorkerPid(id)}
    /\ hist' = [hist EXCEPT !.killed = @ \cup {id}]
    /\ UNCHANGED <<rec, wpidFile, nextId, wk, co, ret, storeVars, monVars>>

\* The workload process ends by itself or is killed from outside the service
WorkloadDies(id) ==
    /\ WorkloadPid(id) \in alive
    /\ alive' = alive \ {WorkloadPid(id)}
    /\ UNCHANGED <<rec, wpidFile, nextId, wk, co, ret, hist, storeVars, monVars>>

\* ------------------------------------------------------------- Coordinator
\* ReplicaManagerV2. Its coroutines contain no await between their store calls, so
\* they never interleave with each other; Worker and workload steps interleave
\* with them freely.
\* (live and sigs are history: whether a process of the entity was alive when the
\* call was made, and the signals the call has sent)
\* no creation request is being served
NoRequest == [absent |-> TRUE]

Idle == [op |-> "idle", pc |-> "", id |-> 0, force |-> FALSE, del |-> FALSE,
         state |-> NoRec, snap |-> <<>>, todo |-> {}, sigs |-> {}, live |-> FALSE,
         request |-> NoRequest, wrote |-> <<>>]

NoRet == [op |-> "none", id |-> 0, force |-> FALSE, result |-> "", info |-> NoRec,
          sigs |-> {}, existed |-> FALSE, live |-> FALSE, follows |-> ""]

EntityLive(id) == WorkerPid(id) \in alive \/ WorkloadPid(id) \in alive

\* _build_replica_info: the ReplicaInfo built from one read of the state file
\* ("ValueError" standing for the raise when there is no state)
BuildReplicaInfo(store, id) ==
    LET state == ReadRecord(store, id) IN
    IF state = NoRec THEN [raised |-> "ValueError"]
    ELSE [replica_id |-> id,
          status |-> Get(state, "status", "pending"),
          display_status |-> Get(state, "display_status", "Pending"),
          endpoint |-> Get(state, "endpoint", NA),
          base_url |-> Get(state, "base_url", None),
          ready_at |-> Get(state, "ready_at", FALSE),
          error_message |-> Get(state, "error_message", None),
          diagnostics |-> Get(state, "diagnostics", None)]

Return(op, id, result, info, sigs, existed) ==
    [op |-> op, id |-> id, force |-> co.force, result |-> result, info |-> info,
     sigs |-> sigs, existed |-> existed, live |-> co.live,
     follows |-> IF ret.id = id THEN ret.op ELSE ""]

InitialState ==
    [status |-> "pending", display_status |-> "Pending", endpoint |-> NA]

\* initial_state of create_replica with the fields the Monitor's scraping reads
InitialStateOf(id) ==
    DictUpdate(InitialState,
               [workdir |-> id, compile_wsjob |-> <<>>, execute_wsjob |-> <<>>])

\* ServerMode, the labels pydantic accepts for server_mode
ServerModes ==
    {"replica", "replica_mock", "api_gateway", "api_gateway_mock",
     "platform_workload", "platform_workload_mock"}

IsPlatformWorkload(mode) == mode \in {"platform_workload", "platform_workload_mock"}

GetRequiredParams(mode) ==
    {"multibox", "model_name", "full_config"}
        \cup (IF IsPlatformWorkload(mode) THEN {"platform_config"} ELSE {})

\* The creation requests of clients: the mode label as sent, whether
\* placement.multibox is a non-empty string, whether platform_config is given.
\* model_name, full_config and placement are present (pydantic requires them).
Requests ==
    [server_mode : ServerModes \cup {"unsupported"}, multibox : BOOLEAN,
     platform_config : BOOLEAN]

\* CreateReplicaRequest validation of the body: server_mode is a ServerMode
ParsesRequest(request) == request.server_mode \in ServerModes

MissingParamsNone(request) == {}

\* routes.py, lines 79-84: the list `missing`
MissingParams(request) ==
    LET required == GetRequiredParams(request.server_mode) IN
    (IF "multibox" \in required /\ ~request.multibox
        THEN {"placement.multibox"} ELSE {})
    \cup (IF "platform_config" \in required /\ ~request.platform_config
           THEN {"platform_config"} ELSE {})

\* POST /replicas: the body is validated by pydantic (422), then the route checks
\* the parameters the mode requires (400), then it awaits manager.create_replica
RouteCreate(request) ==
    /\ co.op = "idle"
    /\ IF ~ParsesRequest(request)
       THEN /\ ret' = Return("post_replicas", 0, "422", request, {}, FALSE)
            /\ co' = co
       ELSE IF MissingParams(request) # {}
       THEN /\ ret' = Return("post_replicas", 0, "400", request, {}, FALSE)
            /\ co' = co
       ELSE /\ nextId <= MaxCreates
            /\ ret' = NoRet
            /\ co' = [Idle EXCEPT !.op = "create", !.pc = "manager",
                                  !.request = request]
    /\ UNCHANGED <<rec, wpidFile, nextId, alive, wk, hist, storeVars, monVars>>

\* create_replica, steps 1-5: new id, workdir, request file, initial state, Worker
\* spawned detached and its pid recorded
CreateEntity ==
    /\ co.op = "create" /\ co.pc = "manager" /\ nextId <= MaxCreates
    /\ LET id == nextId IN
         /\ rec' = CreateRecord(rec, id, InitialStateOf(id))
         /\ alive' = alive \cup {WorkerPid(id)}
         /\ wk' = [wk EXCEPT ![id] = [NoWorker EXCEPT !.pc = "boot"]]
         /\ wpidFile' = [wpidFile EXCEPT ![id] = WorkerPid(id)]
         /\ co' = [co EXCEPT !.pc = "build", !.id = id]
    /\ nextId' = nextId + 1
    /\ ret' = NoRet
    /\ UNCHANGED <<hist, storeVars, monVars>>

\* create_replica when subprocess.Popen raises (OSError: the interpreter cannot be
\* executed, fork fails): steps 1-4 are done, the exception leaves create_replica
\* and the route answers 500. No handler undoes or rewrites the record.
CreateEntitySpawnFails ==
    /\ co.op = "create" /\ co.pc = "manager" /\ nextId <= MaxCreates
    /\ rec' = CreateRecord(rec, nextId, InitialStateOf(nextId))
    /\ nextId' = nextId + 1
    /\ co' = Idle
    /\ ret' = Return("create", nextId, "raised", [raised |-> "OSError"], {}, FALSE)
    /\ UNCHANGED <<wpidFile, alive, wk, hist, storeVars, monVars>>

\* create_replica, step 6: return self._build_replica_info(replica_id)
CreateReturn ==
    /\ co.op = "create" /\ co.pc = "build"
    /\ LET info == BuildReplicaInfo(rec, co.id) IN
         ret' = Return("create", co.id, IF "raised" \in DOMAIN info THEN "raised" ELSE "info",
                       info, {}, FALSE)
    /\ co' = Idle
    /\ UNCHANGED <<rec, wpidFile, nextId, alive, wk, hist, storeVars, monVars>>

\* get_replica
GetEntity(id) ==
    /\ co.op = "idle"
    /\ LET info == BuildReplicaInfo(rec, id) IN
         ret' = IF "raised" \in DOMAIN info
                THEN Return("get", id, "None", NoRec, {}, FALSE)
                ELSE Return("get", id, "info", info, {}, TRUE)
    /\ UNCHANGED <<rec, wpidFile, nextId, alive, wk, co, hist, storeVars, monVars>>

\* health_check_replica: one read of the state; None when there is none
HealthCheckEntity(id) ==
    /\ co.op = "idle"
    /\ LET state == ReadRecord(rec, id) IN
         ret' = IF state = NoRec
                THEN Return("health", id, "None", NoRec, {}, FALSE)
                ELSE Return("health", id,
                            IF Get(state, "status", None) = "ready" THEN "True" ELSE "False",
                            NoRec, {}, TRUE)
    /\ UNCHANGED <<rec, wpidFile, nextId, alive, wk, co, hist, storeVars, monVars>>

\* stop_replica is entered (by a client, with either force)
StopEntity(id, force) ==
    /\ co.op = "idle"
    /\ co' = [Idle EXCEPT !.op = "stop", !.pc = "read", !.id = id, !.force = force,
                          !.live = EntityLive(id)]
    /\ ret' = NoRet
    /\ UNCHANGED <<rec, wpidFile, nextId, alive, wk, hist, storeVars, monVars>>

DeleteEntityNoCheck(id) ==
    /\ co.op = "idle"
    /\ co' = [Idle EXCEPT !.op = "delete", !.pc = "read", !.id = id, !.force = TRUE,
                          !.del = TRUE, !.live = EntityLive(id)]
    /\ ret' = NoRet
    /\ UNCHANGED <<rec, wpidFile, nextId, alive, wk, hist, storeVars, monVars>>

\* delete_replica, lines 273-278: False when there is no state, else stop_replica
\* (force=True) is entered
DeleteEntity(id) ==
    /\ co.op = "idle"
    /\ IF ReadRecord(rec, id) = NoRec
       THEN /\ ret' = Return("delete", id, "False", NoRec, {}, FALSE)
            /\ co' = co
       ELSE /\ ret' = NoRet
            /\ co' = [Idle EXCEPT !.op = "delete", !.pc = "read", !.id = id,
                                  !.force = TRUE, !.del = TRUE,
                                  !.live = EntityLive(id)]
    /\ UNCHANGED <<rec, wpidFile, nextId, alive, wk, hist, storeVars, monVars>>

\* stop_replica, lines 224-226
StopRead ==
    /\ co.op \in {"stop", "delete"} /\ co.pc = "read"
    /\ LET state == ReadRecord(rec, co.id) IN
         IF state = NoRec
         THEN IF co.del
              THEN /\ co' = [co EXCEPT !.pc = "unlink"]
                   /\ ret' = ret
              ELSE /\ co' = Idle
                   /\ ret' = Return("stop", co.id, "None", NoRec, {}, FALSE)
         ELSE /\ co' = [co EXCEPT !.pc = "kill_worker", !.state = state]
              /\ ret' = ret
    /\ UNCHANGED <<rec, wpidFile, nextId, alive, wk, hist, storeVars, monVars>>

Signal(force) == IF force THEN "SIGKILL" ELSE "SIGTERM"

\* stop_replica, lines 230-239
StopKillWorker ==
    /\ co.op \in {"stop", "delete"} /\ co.pc = "kill_worker"
    /\ LET worker_pid == wpidFile[co.id] IN
         IF worker_pid # 0
         THEN /\ alive' \in Kill(alive, worker_pid, Signal(co.force))
              /\ co' = [co EXCEPT !.pc = "kill_replica",
                                  !.sigs = @ \cup {<<worker_pid, Signal(co.force)>>}]
         ELSE /\ alive' = alive
              /\ co' = [co EXCEPT !.pc = "kill_replica"]
    /\ UNCHANGED <<rec, wpidFile, nextId, wk, ret, hist, storeVars, monVars>>

\* stop_replica, lines 241-250: the pid comes from the state read at line 224
StopKillReplica ==
    /\ co.op \in {"stop", "delete"} /\ co.pc = "kill_replica"
    /\ LET replica_pid == Get(co.state, "replica_pid", 0) IN
         IF replica_pid # 0
         THEN /\ alive' \in Kill(alive, replica_pid, Signal(co.force))
              /\ co' = [co EXCEPT !.pc = "update",
                                  !.sigs = @ \cup {<<replica_pid, Signal(co.force)>>}]
         ELSE /\ alive' = alive
              /\ co' = [co EXCEPT !.pc = "update"]
    /\ UNCHANGED <<rec, wpidFile, nextId, wk, ret, hist, storeVars, monVars>>

\* stop_replica, lines 252-260; the decode error of update_replica_state
\* propagates to the caller
StopUpdate ==
    /\ co.op \in {"stop", "delete"} /\ co.pc = "update"
    /\ rec' = UpdateRecord(rec, co.id,
                [status |-> "stopped", display_status |-> "Failed", endpoint |-> NA])
    /\ IF UpdateRaises(rec, co.id)
         THEN /\ co' = Idle
              /\ ret' = Return(co.op, co.id, "raised", [raised |-> "JSONDecodeError"],
                               co.sigs, TRUE)
         ELSE /\ co' = [Wrote(co, rec, co.id, "stopped") EXCEPT !.pc = "build"]
              /\ ret' = ret
    /\ UNCHANGED <<wpidFile, nextId, alive, wk, hist, storeVars, monVars>>

\* stop_replica, line 262
StopReturn ==
    /\ co.op \in {"stop", "delete"} /\ co.pc = "build"
    /\ LET info == BuildReplicaInfo(rec, co.id) IN
         IF "raised" \in DOMAIN info
         THEN /\ co' = Idle
              /\ ret' = Return(co.op, co.id, "raised", info, co.sigs, TRUE)
         ELSE IF co.del
         THEN /\ co' = [co EXCEPT !.pc = "unlink"]
              /\ ret' = ret
         ELSE /\ co' = Idle
              /\ ret' = Return("stop", co.id, "info", info, co.sigs, TRUE)
    /\ UNCHANGED <<rec, wpidFile, nextId, alive, wk, hist, storeVars, monVars>>

\* delete_replica, lines 280-284
DeleteFiles ==
    /\ co.op = "delete" /\ co.pc = "unlink"
    /\ LET files == DeleteRecord([state |-> rec, pid |-> wpidFile], co.id) IN
         /\ rec' = files.state
         /\ wpidFile' = files.pid
    /\ ret' = Return("delete", co.id, "True", NoRec, co.sigs, co.state # NoRec)
    /\ hist' = [hist EXCEPT !.deleted = @ \cup {co.id}]
    /\ co' = Idle
    /\ UNCHANGED <<nextId, alive, wk, storeVars, monVars>>

\* ----------------------------------------------------------------- Monitor
\* _monitor_replicas: one tick is the code between two sleeps. It works on the
\* listing it took at its start. The task can only be cancelled while it sleeps:
\* a tick contains no await.
\* line 374
MonitoredStatuses == {"ready", "waiting_for_ready", "starting"}

\* _get_wsjob_ids_from_workdir, lines 496-512: str(job["id"]) of every entry that
\* has an "id", in file order
ExtractIds(jobs) ==
    LET withId == SelectSeq(jobs, LAMBDA j : "id" \in DOMAIN j) IN
    [i \in 1..Len(withId) |-> withId[i].id]

\* _get_wsjob_ids_from_workdir: ([], []) when the file is missing or cannot be
\* parsed
GetWsjobIds(m) ==
    IF "compile_jobs" \in DOMAIN m
        THEN [compile |-> ExtractIds(m.compile_jobs),
              execute |-> ExtractIds(m.execute_jobs)]
        ELSE [compile |-> <<>>, execute |-> <<>>]

\* [j for j in jobs if j not in current]
NewJobs(jobs, current) ==
    SelectSeq(jobs, LAMBDA j : \A i \in 1..Len(current) : current[i] # j)

\* lines 400-437: the update the scraping makes for one listed state, or no
\* update ([])
ScrapeUpdate(state, m) ==
    LET current_compile == Get(state, "compile_wsjob", <<>>)
        current_execute == Get(state, "execute_wsjob", <<>>)
        found == GetWsjobIds(m)
        new_compile == NewJobs(found.compile, current_compile)
        new_execute == NewJobs(found.execute, current_execute)
    IN  IF /\ (current_compile = <<>> \/ current_execute = <<>>)
           /\ Get(state, "workdir", 0) # 0
           /\ (new_compile # <<>> \/ new_execute # <<>>)
        THEN [compile_wsjob |-> current_compile \o new_compile,
              execute_wsjob |-> current_execute \o new_execute]
        ELSE <<>>

\* lines 369-398: the update the tick makes for one listed state, or no update
TickUpdate(state, live, m) ==
    LET status == Get(state, "status", None)
        replica_pid == Get(state, "replica_pid", 0)
    IN  IF status \notin MonitoredStatuses \/ replica_pid = 0 THEN <<>>
        ELSE IF ~CheckPidAlive(live, replica_pid)
        THEN [status |-> "failed", display_status |-> "Failed", endpoint |-> NA,
              error_message |-> "Replica process died", died_at |-> TRUE]
        ELSE ScrapeUpdate(state, m)

TickRaisedUncaught == [co |-> Idle, mon |-> "dead"]

\* lines 448-450: an exception in the tick is logged, the loop goes back to sleep
TickRaised == [co |-> Idle, mon |-> mon]

\* line 365
MonitorList ==
    /\ co.op = "idle" /\ mon = "running"
    /\ LET all_states == ListRecords(rec) IN
         co' = [Idle EXCEPT !.op = "monitor", !.pc = "loop", !.snap = all_states,
                            !.todo = DOMAIN all_states]
    /\ hist' = [hist EXCEPT !.aliveAtList = alive]
    /\ UNCHANGED <<rec, wpidFile, nextId, alive, wk, ret, storeVars, monVars>>

\* lines 369-437, for one entry of the listing; update_replica_state raising
\* leaves the for loop through the except clause of the tick
MonitorEntity(id) ==
    /\ co.op = "monitor" /\ id \in co.todo
    /\ LET updates == TickUpdate(co.snap[id], alive, meta[id]) IN
        IF updates # <<>> /\ UpdateRaises(rec, id)
        THEN /\ co' = TickRaised.co
             /\ mon' = TickRaised.mon
             /\ hist' = [hist EXCEPT !.aborted = @ \cup {id}, !.aliveAtList = {}]
             /\ rec' = rec
        ELSE /\ rec' = IF updates # <<>> THEN UpdateRecord(rec, id, updates) ELSE rec
             /\ co' = [co EXCEPT !.todo = @ \ {id}]
             /\ UNCHANGED <<mon, hist>>
    /\ UNCHANGED <<wpidFile, nextId, alive, wk, ret, storeVars, meta, denied>>

\* the listing is exhausted: back to asyncio.sleep (line 363)
MonitorEnd ==
    /\ co.op = "monitor" /\ co.todo = {}
    /\ co' = Idle
    /\ hist' = [hist EXCEPT !.aliveAtList = {}]
    /\ UNCHANGED <<rec, wpidFile, nextId, alive, wk, ret, storeVars, monVars>>

StopMonitoringKills ==
    /\ co.op = "idle"
    /\ mon' = IF mon = "running" THEN "cancelled" ELSE mon
    /\ alive' = {}
    /\ ret' = Return("stop_monitoring", 0, "None", NoRec, {}, FALSE)
    /\ UNCHANGED <<rec, wpidFile, nextId, wk, co, hist, storeVars, meta, denied>>

StopMonitoringMidTick ==
    /\ mon' = IF mon = "running" THEN "cancelled" ELSE mon
    /\ ret' = Return("stop_monitoring", 0, "None", NoRec, {}, FALSE)
    /\ UNCHANGED <<rec, wpidFile, nextId, alive, wk, co, hist, storeVars, meta, denied>>

\* stop_monitoring: cancels the task and awaits it; nothing else. It is a
\* coroutine of the loop the Monitor runs on and the tick has no await, so it
\* runs only while the Monitor is inside asyncio.sleep
StopMonitoring ==
    /\ co.op = "idle"
    /\ mon' = IF mon = "running" THEN "cancelled" ELSE mon
    /\ ret' = Return("stop_monitoring", 0, "None", NoRec, {}, FALSE)
    /\ UNCHANGED <<rec, wpidFile, nextId, alive, wk, co, hist, storeVars, meta, denied>>

\* ------------------------------------------------------------ specification
\* no run_meta.json in the workdir
NoMeta == [absent |-> TRUE]

NoHist == [deleted |-> {}, aliveAtList |-> {}, killed |-> {}, aborted |-> {}]

StoreIdle ==
    /\ sfile = 0
    /\ slock = 0
    /\ cl = 0
    /\ now = 0

LifeIdle ==
    /\ rec = [id \in Replicas |-> NoRec]
    /\ wpidFile = [id \in Replicas |-> 0]
    /\ nextId = 1
    /\ alive = {}
    /\ wk = [id \in Replicas |-> NoWorker]
    /\ co = Idle
    /\ ret = NoRet
    /\ hist = NoHist
    /\ meta = [id \in Replicas |-> NoMeta]
    /\ mon = "running"
    /\ denied = {}
    /\ call = NoCall

Init ==
    /\ LifeIdle
    /\ StoreIdle

WorkerStep(id) ==
    \/ WorkerCreating(id)
    \/ WorkerProvision(id)
    \/ WorkerStarting(id)
    \/ WorkerLaunch(id)
    \/ WorkerLaunchCheck(id)
    \/ WorkerRecordPid(id)
    \/ WorkerBranch(id)
    \/ WorkerPoll(id)
    \/ WorkerHealthResult(id)
    \/ WorkerDiagnostics(id)
    \/ WorkerExcept(id)

CoordinatorStep ==
    \/ CreateEntity
    \/ CreateReturn
    \/ StopRead
    \/ StopKillWorker
    \/ StopKillReplica
    \/ StopUpdate
    \/ StopReturn
    \/ DeleteFiles
    \/ \E id \in Replicas : MonitorEntity(id)
    \/ MonitorEnd

Request ==
    \/ \E request \in Requests : RouteCreate(request)
    \/ \E id \in Replicas : GetEntity(id)
    \/ \E id \in Replicas, force \in BOOLEAN : StopEntity(id, force)
    \/ \E id \in Replicas : DeleteEntity(id)
    \/ MonitorList

Next ==
    \/ \E id \in Replicas : WorkerStep(id)
    \/ \E id \in Replicas : WorkloadDies(id)
    \/ \E id \in Replicas : WorkerKilled(id)
    \/ CoordinatorStep
    \/ Request

Spec == Init /\ [][Next]_vars

\* The lifecycle machine with launchers whose handle may advertise no endpoint
PortlessNext ==
    \/ Next
    \/ \E id \in Replicas : WorkerLaunchPortless(id)

PortlessSpec == Init /\ [][PortlessNext]_vars

\* The lifecycle machine on a host where spawning a Worker can fail, with the
\* fairness of LiveSpec
SpawnFailNext ==
    \/ Next
    \/ CreateEntitySpawnFails

SpawnFailSpec ==
    /\ Init /\ [][SpawnFailNext]_vars
    /\ \A id \in Replicas : WF_vars(WorkerStep(id))
    /\ WF_vars(CoordinatorStep \/ CreateEntitySpawnFails)

\* A live Worker process keeps being scheduled and each of its statements returns
\* (the poll has a deadline); a coroutine the loop has started runs to its end.
\* No request and no Monitor tick has to come, and no process has to die.
LiveSpec ==
    /\ Spec
    /\ \A id \in Replicas : WF_vars(WorkerStep(id))
    /\ WF_vars(CoordinatorStep)

\* LiveSpec with a Monitor whose sleep ends again and again: a tick starts
\* infinitely often even if requests keep the Coordinator busy in between
MonitorLiveSpec ==
    /\ LiveSpec
    /\ SF_vars(MonitorList)

\* ------------------------------------------- the coordinator over settled entities
\* MonitorSpec: Monitor ticks and shutdown over entities whose bring-up is over
\* and whose Worker has exited, with the workload writing its run_meta.json and
\* state files being damaged from outside.
JobA == [id |-> "a"]
JobB == [id |-> "b"]
JobX == [id |-> "x"]
JobNoId == [name |-> "n"]

\* the run_meta.json documents a workload may have written
MetaContents ==
    {[compile_jobs |-> <<JobA, JobB>>, execute_jobs |-> <<JobX>>],
     [compile_jobs |-> <<JobB, JobB>>, execute_jobs |-> <<>>],
     [compile_jobs |-> <<JobNoId, JobA>>, execute_jobs |-> <<>>],
     [unparsable |-> TRUE]}

\* the record of an entity after its bring-up: the Worker wrote ready or
\* unhealthy and exited, the workload runs
SettledRecord(id, status, compile) ==
    DictUpdate(
        DictUpdate(NewRecord(id, InitialStateOf(id)),
                   [replica_pid |-> WorkloadPid(id), base_url |-> BaseUrl(Port)]),
        IF status = "ready"
            THEN DictUpdate(ReadyUpdate(BaseUrl(Port)), [compile_wsjob |-> compile])
            ELSE [status |-> "unhealthy", display_status |-> "Failed",
                  endpoint |-> MakeExternalEndpoint(BaseUrl(Port)),
                  error_message |-> "Health check failed within timeout",
                  compile_wsjob |-> compile])

SettledRecords(id) ==
    {NoRec} \cup {SettledRecord(id, s, c) :
                     s \in {"ready", "unhealthy"}, c \in {<<>>, <<"a">>}}

MonitorInit ==
    /\ rec \in [Replicas -> UNION {SettledRecords(id) : id \in Replicas}]
    /\ \A id \in Replicas : rec[id] \in SettledRecords(id)
    /\ wpidFile = [id \in Replicas |-> IF rec[id] = NoRec THEN 0 ELSE WorkerPid(id)]
    /\ alive = {WorkloadPid(id) : id \in {i \in Replicas : rec[i] # NoRec}}
    /\ nextId = MaxReplicas + 1
    /\ wk = [id \in Replicas |-> NoWorker]
    /\ co = Idle
    /\ ret = NoRet
    /\ hist = NoHist
    /\ meta = [id \in Replicas |-> NoMeta]
    /\ mon = "running"
    /\ denied = {}
    /\ call = NoCall
    /\ StoreIdle

\* the workload writes or rewrites run_meta.json in its workdir
MetaWritten(id, m) ==
    /\ WorkloadPid(id) \in alive
    /\ meta[id] # m
    /\ meta' = [meta EXCEPT ![id] = m]
    /\ UNCHANGED <<rec, wpidFile, nextId, alive, wk, co, ret, hist, storeVars, mon, denied>>

\* the state file is damaged from outside the service (edited, truncated)
CorruptRecord(id) ==
    /\ rec[id] \notin {NoRec, Corrupt}
    /\ rec' = [rec EXCEPT ![id] = Corrupt]
    /\ UNCHANGED <<wpidFile, nextId, alive, wk, co, ret, hist, storeVars, monVars>>

MonitorNext ==
    \/ MonitorList
    \/ \E id \in Replicas : MonitorEntity(id)
    \/ MonitorEnd
    \/ StopMonitoring
    \/ \E id \in Replicas : WorkloadDies(id)
    \/ \E id \in Replicas, m \in MetaContents : MetaWritten(id, m)
    \/ \E id \in Replicas : CorruptRecord(id)

MonitorSpec == MonitorInit /\ [][MonitorNext]_vars

\* the workload changes its owner (drops or gains privileges): from then on
\* os.kill on its pid raises PermissionError in the service
WorkloadDenied(id) ==
    /\ WorkloadPid(id) \in alive \ denied
    /\ denied' = denied \cup {WorkloadPid(id)}
    /\ UNCHANGED <<rec, wpidFile, nextId, alive, wk, co, ret, hist, storeVars, meta, mon>>

\* DeniedSpec: the ticks of the Monitor over settled entities whose workloads
\* may die or become unsignallable
DeniedNext ==
    \/ MonitorList
    \/ \E id \in Replicas : MonitorEntity(id)
    \/ MonitorEnd
    \/ StopMonitoring
    \/ \E id \in Replicas : WorkloadDies(id)
    \/ \E id \in Replicas : WorkloadDenied(id)

DeniedSpec == MonitorInit /\ [][DeniedNext]_vars

\* ------------------------------------------------ list_replicas (the listing)
\* The listing reads every record once (list_replica_states), filters on that
\* read, and reads each remaining record again to build its view
\* (_build_replica_info). It has no await: no other request runs in between,
\* but the Workers, which are processes of their own, do.
StatusFilters == {None, "pending", "ready"}

\* lines 193-203: the listing and the filter on the states listed
ListEntities(status) ==
    /\ co.op = "idle"
    /\ LET all_states == ListRecords(rec) IN
         co' = [Idle EXCEPT !.op = "list", !.pc = "loop", !.snap = all_states,
                            !.todo = {id \in DOMAIN all_states :
                                        status = None \/
                                        Get(all_states[id], "status", None) = status},
                            !.request = [status |-> status],
                            !.state = [views |-> {}]]
    /\ UNCHANGED <<rec, wpidFile, nextId, alive, wk, ret, hist, storeVars, monVars>>

ListBuildRaises(id) ==
    /\ co.op = "list" /\ id \in co.todo
    /\ LET info == BuildReplicaInfo(rec, id) IN
         IF "raised" \in DOMAIN info
         THEN /\ co' = Idle
              /\ ret' = Return("list", 0, "raised", NoRec, {}, FALSE)
         ELSE /\ co' = [co EXCEPT !.todo = @ \ {id}, !.state.views = @ \cup {info}]
              /\ ret' = ret
    /\ UNCHANGED <<rec, wpidFile, nextId, alive, wk, hist, storeVars, monVars>>

\* lines 205-208: the view of one listed record, from a read of its own; a
\* view that cannot be built is logged and left out
ListBuild(id) ==
    /\ co.op = "list" /\ id \in co.todo
    /\ LET info == BuildReplicaInfo(rec, id) IN
         co' = [co EXCEPT !.todo = @ \ {id},
                          !.state.views = IF "raised" \in DOMAIN info
                                          THEN @ ELSE @ \cup {info}]
    /\ ret' = ret
    /\ UNCHANGED <<rec, wpidFile, nextId, alive, wk, hist, storeVars, monVars>>

\* line 210
ListReturn ==
    /\ co.op = "list" /\ co.todo = {}
    /\ ret' = Return("list", 0, "list",
                     [views |-> co.state.views, status |-> co.request.status],
                     {}, FALSE)
    /\ co' = Idle
    /\ UNCHANGED <<rec, wpidFile, nextId, alive, wk, hist, storeVars, monVars>>

ListStep ==
    \/ \E status \in StatusFilters : ListEntities(status)
    \/ \E id \in Replicas : ListBuild(id)
    \/ ListReturn

\* ListSpec: the lifecycle machine with listings
ListNext == Next \/ ListStep

ListSpec == Init /\ [][ListNext]_vars

\* ------------------------------------ _build_cmd_for_mode (server_factory.py)
\* BuildCmdSpec: one call of the dispatcher for every mode label, supported
\* or not, and every combination of the optional keyword arguments.
CmdModes == {"replica", "replica_mock", "api_gateway", "api_gateway_mock",
             "platform_workload", "platform_workload_mock"}
ModeLabels == CmdModes \cup {"unknown_mode", "replica_v2"}
AppTags == {None, "build-1"}

\* str(port)
PortStr(port) == IF port = Port THEN "8000" ELSE "8001"

BaseCmd(kw) ==
    <<kw.python_exec, "-m", "cerebras.inference.workload.main",
      "--params", kw.params_path, "--fastapi", "--port", PortStr(kw.port),
      "--mgmt_namespace", kw.namespace, "--logfile", kw.log_path>>

\* _construct_cbcore_image
ConstructCbcoreImage(app_tag) == "cbcore:" \o app_tag

\* lines 515-552
BuildReplicaCmd(kw) ==
    BaseCmd(kw)
    \o (IF kw.app_tag # None THEN <<"--cbcore", ConstructCbcoreImage(kw.app_tag)>>
        ELSE <<>>)
    \o (IF kw.disable_version_check THEN <<"--disable_version_check">> ELSE <<>>)
    \o (IF kw.mock_backend THEN <<"--mock_backend">> ELSE <<>>)

BuildApiGatewayCmdNoFlag(kw) ==
    BaseCmd(kw) \o (IF kw.mock_backend THEN <<"--mock_backend">> ELSE <<>>)

\* lines 554-582
BuildApiGatewayCmd(kw) ==
    BaseCmd(kw) \o <<"--api_gateway">>
    \o (IF kw.mock_backend THEN <<"--mock_backend">> ELSE <<>>)

\* lines 584-610
BuildPlatformWorkloadCmd(kw) ==
    BaseCmd(kw) \o <<"--platform_workload">>
    \o (IF kw.mock_backend THEN <<"--mock_backend">> ELSE <<>>)

\* the builders table of lines 623-630
Builders ==
    [mode \in CmdModes |->
        IF mode \in {"replica", "replica_mock"} THEN "_build_replica_cmd"
        ELSE IF mode \in {"api_gateway", "api_gateway_mock"}
        THEN "_build_api_gateway_cmd"
        ELSE "_build_platform_workload_cmd"]

\* lines 631-642; the keyword arguments a builder does not take are dropped,
\* the ones it takes and did not get have its defaults
BuildCmdForMode(mode, kw) ==
    IF mode \notin DOMAIN Builders
    THEN [raised |-> "ValueError", builder |-> None, cmd |-> <<>>]
    ELSE LET builder == Builders[mode] IN
         [raised |-> None, builder |-> builder,
          cmd |-> IF builder = "_build_replica_cmd" THEN BuildReplicaCmd(kw)
                  ELSE IF builder = "_build_api_gateway_cmd"
                  THEN BuildApiGatewayCmd(kw)
                  ELSE BuildPlatformWorkloadCmd(kw)]

BuildCmdInit ==
    /\ rec = [id \in Replicas |-> NoRec]
    /\ wpidFile = [id \in Replicas |-> 0]
    /\ nextId = 1
    /\ alive = {}
    /\ wk = [id \in Replicas |-> NoWorker]
    /\ co = Idle
    /\ ret = NoRet
    /\ hist = NoHist
    /\ meta = [id \in Replicas |-> NoMeta]
    /\ mon = "running"
    /\ denied = {}
    /\ StoreIdle
    /\ \E mode \in ModeLabels, port \in {Port, Port + 1}, mock_backend \in BOOLEAN,
          app_tag \in AppTags, disable_version_check \in BOOLEAN :
         call = [fn |-> "_build_cmd_for_mode", mode |-> mode,
                 kw |-> [python_exec |-> "python", params_path |-> "/tmp/p.yaml",
                         port |-> port, namespace |-> "ns", log_path |-> "/tmp/log",
                         mock_backend |-> mock_backend, app_tag |-> app_tag,
                         disable_version_check |-> disable_version_check],
                 result |-> [raised |-> None, builder |-> None, cmd |-> <<>>],
                 done |-> FALSE]

BuildCmd ==
    /\ call.fn = "_build_cmd_for_mode" /\ ~call.done
    /\ call' = [call EXCEPT !.result = BuildCmdForMode(call.mode, call.kw),
                            !.done = TRUE]
    /\ UNCHANGED sysVars

BuildCmdSpec == BuildCmdInit /\ [][BuildCmd]_vars

\* ------------------------------------------- poll_health_endpoint (health.py)
\* PollSpec: one call of poll_health_endpoint, iteration by iteration, while
\* the process it watches may die or become unsignallable. Time is counted in
\* units of the poll interval.
MaxTimeout == 3
PollPid == WorkloadPid(1)
Responses == {"200", "503", "ClientError", "TimeoutError"}

NewPoll(timeout_s, pid_given, pid) ==
    [fn |-> "poll_health_endpoint", pid_given |-> pid_given, pid |-> pid,
     time |-> 0, deadline |-> timeout_s, attempt |-> 0, last |-> "",
     result |-> "none"]

PollIterationEndsOnError(p, live, resp, get_s, sleep_s) ==
    IF ~(p.time < p.deadline) THEN [p EXCEPT !.result = "False"]
    ELSE IF p.pid_given /\ ~IsProcessAlive(live, p.pid)
    THEN [p EXCEPT !.result = "False"]
    ELSE [p EXCEPT !.attempt = @ + 1, !.last = resp, !.time = @ + get_s,
                   !.result = IF resp = "200" THEN "True" ELSE "False"]

\* lines 65-95: the loop test, the liveness test, one GET and the sleep; the
\* GET lasts get_s (at most its 10 s timeout) and the sleep sleep_s
PollIteration(p, live, resp, get_s, sleep_s) ==
    IF ~(p.time < p.deadline) THEN [p EXCEPT !.result = "False"]
    ELSE IF p.pid_given /\ ~IsProcessAlive(live, p.pid)
    THEN [p EXCEPT !.result = "False"]
    ELSE IF resp = "200"
    THEN [p EXCEPT !.attempt = @ + 1, !.last = resp, !.time = @ + get_s,
                   !.result = "True"]
    ELSE [p EXCEPT !.attempt = @ + 1, !.last = resp, !.time = @ + get_s + sleep_s]

PollInit ==
    /\ rec = [id \in Replicas |-> NoRec]
    /\ wpidFile = [id \in Replicas |-> 0]
    /\ nextId = 1
    /\ alive \in {{}, {PollPid}}
    /\ wk = [id \in Replicas |-> NoWorker]
    /\ co = Idle
    /\ ret = NoRet
    /\ hist = NoHist
    /\ meta = [id \in Replicas |-> NoMeta]
    /\ mon = "running"
    /\ denied = {}
    /\ StoreIdle
    /\ \E timeout_s \in 0..MaxTimeout, pid_given \in BOOLEAN, pid \in {0, PollPid} :
         call = NewPoll(timeout_s, pid_given, pid)

PollHealthEndpoint ==
    /\ call.fn = "poll_health_endpoint" /\ call.result = "none"
    /\ \E resp \in Responses, get_s \in 0..1, sleep_s \in 1..2 :
         call' = PollIteration(call, alive, resp, get_s, sleep_s)
    /\ UNCHANGED sysVars

PollProcessDies ==
    /\ call.fn = "poll_health_endpoint" /\ PollPid \in alive
    /\ alive' = alive \ {PollPid}
    /\ denied' = denied \ {PollPid}
    /\ UNCHANGED <<rec, wpidFile, nextId, wk, co, ret, hist, meta, mon, sfile, slock,
                   cl, now, call>>

PollProcessDenied ==
    /\ call.fn = "poll_health_endpoint" /\ PollPid \in alive \ denied
    /\ denied' = denied \cup {PollPid}
    /\ UNCHANGED <<rec, wpidFile, nextId, alive, wk, co, ret, hist, meta, mon, sfile,
                   slock, cl, now, call>>

PollNext == PollHealthEndpoint \/ PollProcessDies \/ PollProcessDenied

PollSpec == PollInit /\ [][PollNext]_vars

\* --------------------------------- LocalServerHandle.stop (server_factory.py)
\* HandleStopSpec: one call of stop on each of the handles, the calls running
\* as concurrent tasks, each with a process that may honour or ignore SIGTERM,
\* exit by itself at any moment, or refuse signals. The grace period of 30 s is
\* MaxGrace ticks. returncode is set when the event loop has seen the exit;
\* Popen.send_signal polls first and sends nothing to a process that has
\* exited (the service needs Python 3.10: replica_worker.py 43).
MaxGrace == 2
HandlePid(id) == WorkloadPid(id)

NewStop(process, returncode) ==
    [process |-> process, returncode |-> returncode, pc |-> "start",
     waited |-> 0, sent |-> <<>>, result |-> "none"]

HandleStopInit ==
    /\ rec = [id \in Replicas |-> NoRec]
    /\ wpidFile = [id \in Replicas |-> 0]
    /\ nextId = 1
    /\ alive \in SUBSET {HandlePid(id) : id \in Replicas}
    /\ wk = [id \in Replicas |-> NoWorker]
    /\ co = Idle
    /\ ret = NoRet
    /\ hist = NoHist
    /\ meta = [id \in Replicas |-> NoMeta]
    /\ mon = "running"
    /\ denied \in SUBSET alive
    /\ StoreIdle
    /\ \E process \in [Replicas -> BOOLEAN], returncode \in [Replicas -> BOOLEAN] :
         /\ \A id \in Replicas :
              /\ ~process[id] => (HandlePid(id) \notin alive /\ ~returncode[id])
              /\ returncode[id] => HandlePid(id) \notin alive
         /\ call = [fn |-> "stop",
                    h |-> [id \in Replicas |-> NewStop(process[id], returncode[id])]]

\* lines 858-873: the two early returns, then send_signal(SIGTERM), which
\* raises PermissionError for a process that refuses signals
HandleStopStart(id) ==
    /\ call.fn = "stop" /\ call.h[id].pc = "start"
    /\ IF ~call.h[id].process \/ call.h[id].returncode
       THEN /\ call' = [call EXCEPT !.h[id].pc = "done", !.h[id].result = "True"]
            /\ alive' = alive
       ELSE IF HandlePid(id) \notin alive
       THEN /\ call' = [call EXCEPT !.h[id].pc = "wait"]
            /\ alive' = alive
       ELSE IF HandlePid(id) \in denied
       THEN /\ call' = [call EXCEPT !.h[id].pc = "done", !.h[id].result = "False"]
            /\ alive' = alive
       ELSE /\ call' = [call EXCEPT !.h[id].pc = "wait",
                                    !.h[id].sent = Append(@, "SIGTERM")]
            /\ alive' \in Kill(alive, HandlePid(id), "SIGTERM")
    /\ UNCHANGED <<rec, wpidFile, nextId, wk, co, ret, hist, meta, mon, denied, sfile,
                   slock, cl, now>>

\* time passes inside asyncio.wait_for(self._process.wait(), timeout=30)
HandleStopTick(id) ==
    /\ call.fn = "stop" /\ call.h[id].pc = "wait" /\ call.h[id].waited < MaxGrace
    /\ call' = [call EXCEPT !.h[id].waited = @ + 1]
    /\ UNCHANGED sysVars

\* lines 874-878 and 882-884: wait() returns once the process has exited
HandleStopWaited(id) ==
    /\ call.fn = "stop" /\ call.h[id].pc \in {"wait", "wait_killed"}
    /\ HandlePid(id) \notin alive
    /\ call' = [call EXCEPT !.h[id].pc = "done", !.h[id].returncode = TRUE,
                            !.h[id].result = "True"]
    /\ UNCHANGED sysVars

HandleStopKillsAtOnce(id) ==
    /\ call.fn = "stop" /\ call.h[id].pc = "wait"
    /\ call' = [call EXCEPT !.h[id].pc = "wait_killed",
                            !.h[id].sent = IF HandlePid(id) \in alive
                                           THEN Append(@, "SIGKILL") ELSE @]
    /\ alive' = alive \ {HandlePid(id)}
    /\ denied' = denied \ {HandlePid(id)}
    /\ UNCHANGED <<rec, wpidFile, nextId, wk, co, ret, hist, meta, mon, sfile, slock,
                   cl, now>>

\* lines 879-882: wait_for raised TimeoutError; kill() on a process that has
\* just exited sends nothing
HandleStopGraceEnds(id) ==
    /\ call.fn = "stop" /\ call.h[id].pc = "wait" /\ call.h[id].waited = MaxGrace
    /\ call' = [call EXCEPT !.h[id].pc = "wait_killed",
                            !.h[id].sent = IF HandlePid(id) \in alive
                                           THEN Append(@, "SIGKILL") ELSE @]
    /\ alive' = alive \ {HandlePid(id)}
    /\ denied' = denied \ {HandlePid(id)}
    /\ UNCHANGED <<rec, wpidFile, nextId, wk, co, ret, hist, meta, mon, sfile, slock,
                   cl, now>>

\* the process exits by itself
HandleProcessExits(id) ==
    /\ call.fn = "stop" /\ HandlePid(id) \in alive
    /\ alive' = alive \ {HandlePid(id)}
    /\ denied' = denied \ {HandlePid(id)}
    /\ UNCHANGED <<rec, wpidFile, nextId, wk, co, ret, hist, meta, mon, sfile, slock,
                   cl, now, call>>

\* the event loop's child watcher sees the exit before stop is entered
HandleExitSeen(id) ==
    /\ call.fn = "stop" /\ call.h[id].pc = "start"
    /\ call.h[id].process /\ ~call.h[id].returncode
    /\ HandlePid(id) \notin alive
    /\ call' = [call EXCEPT !.h[id].returncode = TRUE]
    /\ UNCHANGED sysVars

HandleStopNext ==
    \E id \in Replicas :
        \/ HandleStopStart(id)
        \/ HandleStopTick(id)
        \/ HandleStopWaited(id)
        \/ HandleStopGraceEnds(id)
        \/ HandleProcessExits(id)
        \/ HandleExitSeen(id)

HandleStopSpec == HandleStopInit /\ [][HandleStopNext]_vars

\* ------------------------------ the in-memory ReplicaManager (replica_manager.py)
\* MemSpec: the manager that keeps its replicas in a dict of the service
\* process. Every method is a coroutine of one event loop: a step below is the
\* code between two awaits that suspend.
NoReplica ==
    [status |-> "absent", server_handle |-> FALSE, wait_for_ready |-> FALSE,
     up |-> "none", stop |-> "none", hc |-> "none"]

MemInit ==
    /\ rec = [id \in Replicas |-> NoRec]
    /\ wpidFile = [id \in Replicas |-> 0]
    /\ nextId = 1
    /\ alive = {}
    /\ wk = [id \in Replicas |-> NoWorker]
    /\ co = Idle
    /\ ret = NoRet
    /\ hist = NoHist
    /\ meta = [id \in Replicas |-> NoMeta]
    /\ mon = "running"
    /\ denied = {}
    /\ StoreIdle
    /\ call = [fn |-> "ReplicaManager", replicas |-> [id \in Replicas |-> NoReplica]]

\* create_replica, lines 648-677: the replica is registered; with
\* wait_for_ready the bring-up runs in the request, up to its first await
\* (create_server_handle), otherwise it is a task still to be started
MemCreateReplica(id, wait_for_ready) ==
    /\ call.fn = "ReplicaManager" /\ call.replicas[id].status = "absent"
    /\ call' = [call EXCEPT !.replicas[id] =
                   [NoReplica EXCEPT
                      !.wait_for_ready = wait_for_ready,
                      !.status = IF wait_for_ready THEN "creating" ELSE "pending",
                      !.up = IF wait_for_ready THEN "create_handle" ELSE "start"]]
    /\ UNCHANGED sysVars

\* _bring_up_replica as a task, lines 691-696
MemBringUpStart(id) ==
    /\ call.fn = "ReplicaManager" /\ call.replicas[id].up = "start"
    /\ call' = [call EXCEPT !.replicas[id].status = "creating",
                            !.replicas[id].up = "create_handle"]
    /\ UNCHANGED sysVars

\* lines 696-719: create_server_handle returned or raised
MemBringUpHandle(id) ==
    /\ call.fn = "ReplicaManager" /\ call.replicas[id].up = "create_handle"
    /\ \/ /\ call' = [call EXCEPT !.replicas[id].server_handle = TRUE,
                                   !.replicas[id].status = "waiting_for_ready",
                                   !.replicas[id].up = "wait"]
          /\ alive' = alive \cup {HandlePid(id)}
       \/ /\ call' = [call EXCEPT !.replicas[id].status = "failed",
                                   !.replicas[id].up = "done"]
          /\ alive' = alive
    /\ UNCHANGED <<rec, wpidFile, nextId, wk, co, ret, hist, meta, mon, denied, sfile,
                   slock, cl, now>>

\* lines 733-776: wait_for_ready returned (the server answered) or raised
MemBringUpWaited(id) ==
    /\ call.fn = "ReplicaManager" /\ call.replicas[id].up = "wait"
    /\ \E is_healthy \in IF HandlePid(id) \in alive THEN BOOLEAN ELSE {FALSE} :
         call' = [call EXCEPT !.replicas[id].status =
                                   IF is_healthy THEN "ready" ELSE "unhealthy",
                              !.replicas[id].up = "done"]
    /\ UNCHANGED sysVars

\* the end of stop_replica, lines 855-860
MemStopped(r) == [r EXCEPT !.status = "stopped", !.stop = "returned"]

\* stop_replica, lines 827-853, up to its first await that suspends: the
\* cancelled task, the handle's stop, or none
MemStopReplica(id) ==
    /\ call.fn = "ReplicaManager"
    /\ call.replicas[id].status # "absent" /\ call.replicas[id].stop = "none"
    /\ LET r == call.replicas[id] IN
         call' = [call EXCEPT !.replicas[id] =
            IF ~r.wait_for_ready /\ r.up \in {"start", "create_handle", "wait"}
            THEN [r EXCEPT !.status = "stopping", !.up = "cancelled",
                           !.stop = "task_awaited"]
            ELSE IF r.server_handle
            THEN [r EXCEPT !.status = "stopping", !.stop = "stop_handle"]
            ELSE MemStopped(r)]
    /\ UNCHANGED sysVars

\* lines 844-853, after the cancelled task has ended
MemStopAfterCancel(id) ==
    /\ call.fn = "ReplicaManager" /\ call.replicas[id].stop = "task_awaited"
    /\ LET r == call.replicas[id] IN
         call' = [call EXCEPT !.replicas[id] =
            IF r.server_handle THEN [r EXCEPT !.stop = "stop_handle"]
            ELSE MemStopped(r)]
    /\ UNCHANGED sysVars

\* lines 848-860: the handle's stop has returned, the process is gone
MemStopHandle(id) ==
    /\ call.fn = "ReplicaManager" /\ call.replicas[id].stop = "stop_handle"
    /\ call' = [call EXCEPT !.replicas[id] = MemStopped(@)]
    /\ alive' = alive \ {HandlePid(id)}
    /\ UNCHANGED <<rec, wpidFile, nextId, wk, co, ret, hist, meta, mon, denied, sfile,
                   slock, cl, now>>

\* health_check_replica, lines 867-878: None without a replica or a handle,
\* otherwise the handle's health_check is awaited
MemHealthCheck(id) ==
    /\ call.fn = "ReplicaManager"
    /\ call.replicas[id].status # "absent" /\ call.replicas[id].server_handle
    /\ call.replicas[id].hc = "none"
    /\ call' = [call EXCEPT !.replicas[id].hc = "poll"]
    /\ UNCHANGED sysVars

\* lines 892-898: the poll answered; it cannot be healthy without a process
MemHealthChecked(id) ==
    /\ call.fn = "ReplicaManager" /\ call.replicas[id].hc = "poll"
    /\ \E is_healthy \in IF HandlePid(id) \in alive THEN BOOLEAN ELSE {FALSE} :
         call' = [call EXCEPT !.replicas[id].status =
                                   IF is_healthy THEN "ready" ELSE "unhealthy",
                              !.replicas[id].hc = "none"]
    /\ UNCHANGED sysVars

MemNext ==
    \E id \in Replicas :
        \/ \E wait_for_ready \in BOOLEAN : MemCreateReplica(id, wait_for_ready)
        \/ MemBringUpStart(id)
        \/ MemBringUpHandle(id)
        \/ MemBringUpWaited(id)
        \/ MemStopReplica(id)
        \/ MemStopAfterCancel(id)
        \/ MemStopHandle(id)
        \/ MemHealthCheck(id)
        \/ MemHealthChecked(id)

MemSpec == MemInit /\ [][MemNext]_vars

\* RequestSpec: the requests of clients over the same entities
RequestNext ==
    \/ \E id \in Replicas : GetEntity(id)
    \/ \E id \in Replicas : HealthCheckEntity(id)
    \/ \E id \in Replicas, force \in BOOLEAN : StopEntity(id, force)
    \/ \E id \in Replicas : DeleteEntity(id)
    \/ StopRead
    \/ StopKillWorker
    \/ StopKillReplica
    \/ StopUpdate
    \/ StopReturn
    \/ DeleteFiles
    \/ \E id \in Replicas : WorkloadDies(id)
    \/ \E id \in Replicas : CorruptRecord(id)

RequestSpec == MonitorInit /\ [][RequestNext]_vars

\* ListSettledSpec: listings over settled entities, whose records may be
\* damaged, stopped or deleted
ListSettledNext == RequestNext \/ ListStep

ListSettledSpec == MonitorInit /\ [][ListSettledNext]_vars

\* ------------------------------------------- the state file, call by call
\* One replica's state file as the processes that share it see it. Every open()
\* makes its own open file description, so flock treats every call as its own
\* lock owner, also for two calls of one process.
Clients == 1..MaxClients
StoreId == 1

\* What the bytes of the file are: nothing (created or truncated, not yet
\* written), a prefix of a JSON document (the write buffer spilled before the
\* flush), or a whole JSON document.
Empty == [kind |-> "empty"]
Torn == [kind |-> "torn"]

\* json.dump(state, f) followed by f.flush()
JsonDump(state) == [kind |-> "json", obj |-> state]

JsonLoadRaw(content) == [ok |-> TRUE, obj |-> content]

\* json.load(f): JSONDecodeError on an empty file and on a prefix of a document
JsonLoad(content) ==
    IF content.kind = "json" THEN [ok |-> TRUE, obj |-> content.obj]
                             ELSE [ok |-> FALSE]

LockExFreeAlways(lock, p) == TRUE

\* fcntl.flock(fd, LOCK_EX) returns once no other description holds any lock
LockExFree(lock, p) == lock.ex \ {p} = {} /\ lock.sh \ {p} = {}

LockShFreeAlways(lock, p) == TRUE

\* fcntl.flock(fd, LOCK_SH) returns once no other description holds LOCK_EX
LockShFree(lock, p) == lock.ex \ {p} = {}

\* fcntl.flock(fd, LOCK_UN)
Unlock(lock, p) == [ex |-> lock.ex \ {p}, sh |-> lock.sh \ {p}]

NoResult == [nothing_yet |-> TRUE]

\* A client process: pc is the statement it executes next; state is the local
\* dict of update_replica_state; result / listing are what its last
\* get_replica_state / list_replica_states returned; saw is what that read found
\* in the file; done counts its completed updates.
NoClient == [pc |-> "idle", op |-> "none", state |-> NoRec, result |-> NoResult,
             listing |-> {}, saw |-> "nothing", done |-> 0]

\* the distinct field client p sets, and the value of its next update
Field(p) == "field_" \o ToString(p)
Updates(p) ==
    [k \in {Field(p), "status"} |->
        IF k = "status" THEN Field(p) ELSE cl[p].done + 1]

\* the record create_replica_state writes at time t
StoredAt(t) ==
    DictUpdate(NewRecord(StoreId, InitialState), [created_at |-> t, updated_at |-> t])

StoredInitial == StoredAt(0)

\* a record without its updated_at stamp
Unstamped(state) == [k \in DOMAIN state \ {"updated_at"} |-> state[k]]

\* ---- update_replica_state
UpdExists(p) ==
    /\ cl[p].pc = "idle"
    /\ cl[p].done < MaxUpdates
    /\ cl' = [cl EXCEPT ![p].pc = IF sfile.exists THEN "u_open" ELSE "idle",
                        ![p].op = "update"]
    /\ UNCHANGED <<sfile, slock, now, lifeVars>>

\* open(state_file, "r+"): FileNotFoundError when the file is gone
UpdOpen(p) ==
    /\ cl[p].pc = "u_open"
    /\ cl' = [cl EXCEPT ![p].pc = IF sfile.exists THEN "u_lock" ELSE "idle"]
    /\ UNCHANGED <<sfile, slock, now, lifeVars>>

UpdLock(p) ==
    /\ cl[p].pc = "u_lock"
    /\ LockExFree(slock, p)
    /\ slock' = [slock EXCEPT !.ex = @ \cup {p}]
    /\ cl' = [cl EXCEPT ![p].pc = "u_load"]
    /\ sfile' = [sfile EXCEPT !.expected = DictUpdate(@, Updates(p))]
    /\ UNCHANGED <<now, lifeVars>>

UpdLoadNoMerge(p) ==
    /\ cl[p].pc = "u_load"
    /\ cl' = [cl EXCEPT ![p].pc = "u_trunc",
                        ![p].state = DictUpdate(Updates(p), [updated_at |-> now])]
    /\ UNCHANGED <<sfile, slock, now, lifeVars>>

\* state = json.load(f); state.update(updates); state["updated_at"] = now;
\* a decode error leaves through the finally clause, which unlocks, and
\* propagates to the caller
UpdLoad(p) ==
    /\ cl[p].pc = "u_load"
    /\ LET r == JsonLoad(sfile.content) IN
        IF r.ok
          THEN /\ cl' = [cl EXCEPT ![p].pc = "u_trunc",
                                   ![p].state =
                                       DictUpdate(DictUpdate(r.obj, Updates(p)),
                                                  [updated_at |-> now])]
               /\ UNCHANGED slock
          ELSE /\ cl' = [cl EXCEPT ![p].pc = "idle"]
               /\ slock' = Unlock(slock, p)
    /\ UNCHANGED <<sfile, now, lifeVars>>

\* f.seek(0); f.truncate()
UpdTruncate(p) ==
    /\ cl[p].pc = "u_trunc"
    /\ sfile' = [sfile EXCEPT !.content = Empty]
    /\ cl' = [cl EXCEPT ![p].pc = "u_dump"]
    /\ UNCHANGED <<slock, now, lifeVars>>

\* json.dump(state, f): the text goes to the write buffer, part of it may reach
\* the file already
UpdDump(p) ==
    /\ cl[p].pc = "u_dump"
    /\ \E c \in {Empty, Torn} : sfile' = [sfile EXCEPT !.content = c]
    /\ cl' = [cl EXCEPT ![p].pc = "u_flush"]
    /\ UNCHANGED <<slock, now, lifeVars>>

\* f.flush(); os.fsync(f.fileno())
UpdFlush(p) ==
    /\ cl[p].pc = "u_flush"
    /\ sfile' = [sfile EXCEPT !.content = JsonDump(cl[p].state),
                              !.committed = @ \cup {cl[p].state}]
    /\ cl' = [cl EXCEPT ![p].pc = "u_unlock"]
    /\ UNCHANGED <<slock, now, lifeVars>>

UpdUnlock(p) ==
    /\ cl[p].pc = "u_unlock"
    /\ slock' = Unlock(slock, p)
    /\ cl' = [cl EXCEPT ![p].pc = "idle", ![p].done = @ + 1, ![p].state = NoRec]
    /\ UNCHANGED <<sfile, now, lifeVars>>

\* ---- get_replica_state, called directly or by list_replica_states
\* list_replica_states: glob("*.json"); no file, nothing listed
RdBegin(p, op) ==
    /\ cl[p].pc = "idle"
    /\ IF op = "list" /\ ~sfile.exists
         THEN cl' = [cl EXCEPT ![p].op = op, ![p].listing = {},
                               ![p].result = NoResult, ![p].saw = "absent"]
         ELSE cl' = [cl EXCEPT ![p].op = op, ![p].pc = "r_exists"]
    /\ UNCHANGED <<sfile, slock, now, lifeVars>>

\* what the call hands back: get returns the state or None; list keeps the state
\* only "if state"
RdReturn(p, state, seen) ==
    [cl EXCEPT ![p].pc = "idle",
               ![p].saw = seen,
               ![p].result = IF cl[p].op = "get" THEN state ELSE NoResult,
               ![p].listing = IF cl[p].op = "list" /\ state # NoRec
                                THEN {state} ELSE {}]

\* if not state_file.exists(): return None
RdExists(p) ==
    /\ cl[p].pc = "r_exists"
    /\ IF sfile.exists
         THEN cl' = [cl EXCEPT ![p].pc = "r_open"]
         ELSE cl' = RdReturn(p, NoRec, "absent")
    /\ UNCHANGED <<sfile, slock, now, lifeVars>>

\* open(state_file, "r"): FileNotFoundError is caught, None returned
RdOpen(p) ==
    /\ cl[p].pc = "r_open"
    /\ IF sfile.exists
         THEN cl' = [cl EXCEPT ![p].pc = "r_lock"]
         ELSE cl' = RdReturn(p, NoRec, "absent")
    /\ UNCHANGED <<sfile, slock, now, lifeVars>>

RdLock(p) ==
    /\ cl[p].pc = "r_lock"
    /\ LockShFree(slock, p)
    /\ slock' = [slock EXCEPT !.sh = @ \cup {p}]
    /\ cl' = [cl EXCEPT ![p].pc = "r_load"]
    /\ UNCHANGED <<sfile, now, lifeVars>>

\* return json.load(f), unlocking in the finally clause; "except Exception"
\* logs the decode error and returns None
RdLoad(p) ==
    /\ cl[p].pc = "r_load"
    /\ LET r == JsonLoad(sfile.content) IN
        cl' = RdReturn(p, IF r.ok THEN r.obj ELSE NoRec, sfile.content.kind)
    /\ slock' = Unlock(slock, p)
    /\ UNCHANGED <<sfile, now, lifeVars>>

\* ---- create_replica_state (the coordinator calls it once per id)
\* open(state_file, "w") creates the file empty, before any lock is taken
CrOpen(p) ==
    /\ cl[p].pc = "idle"
    /\ ~sfile.exists
    /\ sfile' = [sfile EXCEPT !.exists = TRUE, !.content = Empty]
    /\ cl' = [cl EXCEPT ![p].pc = "c_lock", ![p].op = "create",
                        ![p].state = StoredAt(now)]
    /\ UNCHANGED <<slock, now, lifeVars>>

CrLock(p) ==
    /\ cl[p].pc = "c_lock"
    /\ LockExFree(slock, p)
    /\ slock' = [slock EXCEPT !.ex = @ \cup {p}]
    /\ cl' = [cl EXCEPT ![p].pc = "c_dump"]
    /\ UNCHANGED <<sfile, now, lifeVars>>

CrDump(p) ==
    /\ cl[p].pc = "c_dump"
    /\ \E c \in {Empty, Torn} : sfile' = [sfile EXCEPT !.content = c]
    /\ cl' = [cl EXCEPT ![p].pc = "c_flush"]
    /\ UNCHANGED <<slock, now, lifeVars>>

CrFlush(p) ==
    /\ cl[p].pc = "c_flush"
    /\ sfile' = [sfile EXCEPT !.content = JsonDump(cl[p].state),
                              !.committed = @ \cup {cl[p].state}]
    /\ cl' = [cl EXCEPT ![p].pc = "c_unlock"]
    /\ UNCHANGED <<slock, now, lifeVars>>

CrUnlock(p) ==
    /\ cl[p].pc = "c_unlock"
    /\ slock' = Unlock(slock, p)
    /\ cl' = [cl EXCEPT ![p].pc = "idle", ![p].state = NoRec]
    /\ UNCHANGED <<sfile, now, lifeVars>>

\* ---- the two store specifications
StoreInit ==
    /\ LifeIdle
    /\ sfile = [exists |-> TRUE, content |-> JsonDump(StoredInitial),
                committed |-> {StoredInitial}, expected |-> Unstamped(StoredInitial)]
    /\ slock = [ex |-> {}, sh |-> {}]
    /\ cl = [p \in Clients |-> NoClient]
    /\ now = 0

StoreCreateInit ==
    /\ LifeIdle
    /\ sfile = [exists |-> FALSE, content |-> Empty, committed |-> {},
                expected |-> Unstamped(StoredInitial)]
    /\ slock = [ex |-> {}, sh |-> {}]
    /\ cl = [p \in Clients |-> NoClient]
    /\ now = 0

\* time passes; the wall clock is taken not to be set back
Tick ==
    /\ now < MaxClock
    /\ now' = now + 1
    /\ UNCHANGED <<sfile, slock, cl, lifeVars>>

UpdateStep(p) ==
    \/ UpdExists(p)
    \/ UpdOpen(p)
    \/ UpdLock(p)
    \/ UpdLoad(p)
    \/ UpdTruncate(p)
    \/ UpdDump(p)
    \/ UpdFlush(p)
    \/ UpdUnlock(p)

ReadStep(p) ==
    \/ \E op \in {"get", "list"} : RdBegin(p, op)
    \/ RdExists(p)
    \/ RdOpen(p)
    \/ RdLock(p)
    \/ RdLoad(p)

CreateStep(p) ==
    \/ CrOpen(p)
    \/ CrLock(p)
    \/ CrDump(p)
    \/ CrFlush(p)
    \/ CrUnlock(p)

StoreNext ==
    \/ \E p \in Clients : UpdateStep(p)
    \/ \E p \in Clients : ReadStep(p)
    \/ Tick

StoreSpec == StoreInit /\ [][StoreNext]_vars

StoreCreateNext ==
    \/ \E p \in Clients : CreateStep(p)
    \/ \E p \in Clients : ReadStep(p)

StoreCreateSpec == StoreCreateInit /\ [][StoreCreateNext]_vars

\* ------------------------------------ the ReplicaStateManager API, call by call
\* The public methods of ReplicaStateManager applied one after another to the
\* state directory, with ids and arguments a caller is free to pass. ret keeps,
\* for the last call, its arguments, the record it found and what it returned.
ApiStatuses == {"pending", "creating", "ready", "failed"}

\* the initial_state / updates dictionaries callers pass
ApiDicts ==
    {[status |-> s] : s \in ApiStatuses}
        \cup {[endpoint |-> e] : e \in {NA, "http://host"}}
        \cup {InitialState, [model_name |-> "m"]}

ApiRet(op, id, arg, value) ==
    [op |-> op, id |-> id, arg |-> arg, existed |-> rec[id] # NoRec,
     before |-> rec[id], value |-> value]

ApiCreate(id, initial_state) ==
    /\ rec' = CreateRecord(rec, id, initial_state)
    /\ ret' = ApiRet("create_replica_state", id, initial_state, None)
    /\ UNCHANGED <<wpidFile, nextId, alive, wk, co, hist, storeVars, monVars>>

ApiUpdate(id, updates) ==
    /\ rec' = UpdateRecord(rec, id, updates)
    /\ ret' = ApiRet("update_replica_state", id, updates, None)
    /\ UNCHANGED <<wpidFile, nextId, alive, wk, co, hist, storeVars, monVars>>

ApiGet(id) ==
    /\ ret' = ApiRet("get_replica_state", id, None, ReadRecord(rec, id))
    /\ UNCHANGED <<rec, wpidFile, nextId, alive, wk, co, hist, storeVars, monVars>>

ApiList ==
    /\ ret' = ApiRet("list_replica_states", StoreId, None, ListRecords(rec))
    /\ UNCHANGED <<rec, wpidFile, nextId, alive, wk, co, hist, storeVars, monVars>>

\* set_worker_pid: writes str(pid) to <id>.worker.pid
ApiSetWorkerPid(id, pid) ==
    /\ wpidFile' = [wpidFile EXCEPT ![id] = pid]
    /\ ret' = ApiRet("set_worker_pid", id, pid, None)
    /\ UNCHANGED <<rec, nextId, alive, wk, co, hist, storeVars, monVars>>

ApiDelete(id) ==
    /\ LET files == DeleteRecord([state |-> rec, pid |-> wpidFile], id) IN
        /\ rec' = files.state
        /\ wpidFile' = files.pid
    /\ ret' = ApiRet("delete_replica_state", id, None, None)
    /\ UNCHANGED <<nextId, alive, wk, co, hist, storeVars, monVars>>

StoreApiNext ==
    \/ \E id \in Replicas, d \in ApiDicts : ApiCreate(id, d)
    \/ \E id \in Replicas, d \in ApiDicts : ApiUpdate(id, d)
    \/ \E id \in Replicas : ApiGet(id)
    \/ ApiList
    \/ \E id \in Replicas : ApiSetWorkerPid(id, WorkerPid(id))
    \/ \E id \in Replicas : ApiDelete(id)

StoreApiSpec == Init /\ [][StoreApiNext]_vars

\* ----------------------------------------------------------- store properties
\* C2: concurrent UpdateRecord calls on one existing id, each setting its own
\* field, lose no update: whenever no call holds the exclusive lock, the file is
\* a whole record in which the field of every client holds the value of that
\* client's last completed update.
C2_NoLostUpdate ==
    slock.ex = {} =>
        /\ sfile.content.kind = "json"
        /\ \A p \in Clients : Get(sfile.content.obj, Field(p), 0) = cl[p].done

\* two clients have both completed an update, and one of them waits for the lock
\* again while the other is inside its read-merge-write
C2_Witness ==
    \E p, q \in Clients :
        /\ p # q
        /\ cl[p].pc = "u_unlock"
        /\ cl[p].done >= 1
        /\ cl[q].pc = "u_lock"
        /\ cl[q].done >= 1

\* C9: a ReadRecord that runs while UpdateRecord calls are in flight on the same
\* existing id returns a whole record that some call wrote completely (the one
\* before or the one after the update): never None, never a truncated or
\* half-written file.
C9_ReadNeverTorn ==
    \A p \in Clients :
        /\ cl[p].result \in {NoResult} \cup sfile.committed
        /\ cl[p].saw \in {"nothing", "json"}
        /\ cl[p].listing \subseteq sfile.committed

\* a read has returned a record carrying a concurrent client's update, and the
\* reader holds the shared lock again while that client waits to update again
C9_Witness ==
    \E p, q \in Clients :
        /\ p # q
        /\ cl[p].pc = "r_load"
        /\ cl[p].op = "get"
        /\ cl[p].result \in sfile.committed
        /\ Get(cl[p].result, Field(q), 0) >= 1
        /\ cl[q].pc = "u_lock"

HandlesEntry(id) ==
    /\ co.op = "monitor" /\ id \in co.todo
    /\ (co'.op # "monitor" \/ id \notin co'.todo)

HasLists(r) == "compile_wsjob" \in DOMAIN r /\ "execute_wsjob" \in DOMAIN r

NoDuplicate(s) == \A i, j \in 1..Len(s) : i # j => s[i] # s[j]

IsPrefix(s, t) == Len(s) <= Len(t) /\ SubSeq(t, 1, Len(s)) = s

\* C followed by the ids of M that are not in C
Merged(C, M) == C \o SelectSeq(M, LAMBDA j : \A i \in 1..Len(C) : C[i] # j)

\* C13: for every record that still misses one of its two job-ID lists, one
\* Monitor tick against a metadata file with compile ids Mc and execute ids Me
\* stores C followed by the ids of Mc not in C, and E followed by the ids of Me
\* not in E; a tick that finds nothing new changes nothing. (Read in the claim's
\* favour: the record is the one the tick listed, and its workload is alive.)
C13_TickMergesJobIds ==
    [][\A id \in Replicas :
        (/\ HandlesEntry(id)
         /\ rec[id] = co.snap[id]
         /\ HasLists(rec[id])
         /\ (rec[id].compile_wsjob = <<>> \/ rec[id].execute_wsjob = <<>>)
         /\ WorkloadPid(id) \in alive
         /\ "compile_jobs" \in DOMAIN meta[id])
        => /\ rec'[id] # Corrupt
           /\ rec'[id].compile_wsjob =
                Merged(rec[id].compile_wsjob, ExtractIds(meta[id].compile_jobs))
           /\ rec'[id].execute_wsjob =
                Merged(rec[id].execute_wsjob, ExtractIds(meta[id].execute_jobs))
           /\ (rec'[id].compile_wsjob = rec[id].compile_wsjob
                 /\ rec'[id].execute_wsjob = rec[id].execute_wsjob
               => rec'[id] = rec[id])]_vars

\* C14: each of the two job-ID lists of a record never contains an identifier
\* twice, and every write keeps the list stored before as a prefix, whatever
\* the metadata file holds and however many ticks run.
C14_JobListsAppendOnlyNoDuplicates ==
    [][\A id \in Replicas :
        HasLists(rec'[id])
        => /\ NoDuplicate(rec'[id].compile_wsjob)
           /\ NoDuplicate(rec'[id].execute_wsjob)
           /\ HasLists(rec[id])
                => /\ IsPrefix(rec[id].compile_wsjob, rec'[id].compile_wsjob)
                   /\ IsPrefix(rec[id].execute_wsjob, rec'[id].execute_wsjob)]_vars

\* C15: stop_monitoring cancels the Monitor task and nothing else: no record, no
\* pid file, no metadata file and no process is different after it.
C15_StopMonitoringTouchesNothing ==
    [][(mon = "running" /\ mon' # "running")
        => /\ mon' = "cancelled"
           /\ ret'.op = "stop_monitoring"
           /\ UNCHANGED <<rec, wpidFile, alive, meta>>]_vars

\* the Monitor was cancelled while a ready entity and its workload live on
C15_Witness ==
    /\ mon = "cancelled"
    /\ ret.op = "stop_monitoring"
    /\ \E id \in Replicas :
        /\ rec[id] \notin {NoRec, Corrupt}
        /\ rec[id].status = "ready"
        /\ WorkloadPid(id) \in alive

\* C18: the Monitor loop ends only by being cancelled: a tick in which an
\* exception is raised is abandoned with the loop still running and back at its
\* sleep, so that a later tick runs.
C18_LoopSurvivesFailedTick ==
    [][/\ (mon' # mon) => (mon' = "cancelled" /\ ret'.op = "stop_monitoring")
       /\ (hist'.aborted # hist.aborted) => (mon' = "running" /\ co' = Idle)]_vars

\* a tick is running after an earlier tick was abandoned on an exception
C18_Witness ==
    /\ hist.aborted # {}
    /\ mon = "running"
    /\ co.op = "monitor"
    /\ co.todo # {}

\* C19: an error raised while a tick handles one listed entity does not end the
\* tick: when the tick ends, every other entity it listed has been handled.
C19_TickHandlesEveryOtherEntity ==
    [][(co.op = "monitor" /\ co'.op # "monitor") => Cardinality(co.todo) <= 1]_vars

\* the record of id is absent, or its file does not parse
Unreadable(id) == rec[id] \in {NoRec, Corrupt}

\* a call answered in one step (get_replica, health_check_replica, delete_replica)
\* for the entity id
Answered(id) == co.op = "idle" /\ co'.op = "idle" /\ ret' # ret /\ ret'.id = id

\* C16: get_replica, stop_replica, health_check_replica and delete_replica for an
\* id whose record is absent or corrupt report not-found (None, and False for
\* delete); they raise nothing, send no signal and leave every record, every pid
\* file and every process as they were.
C16_UnreadableIsNotFound ==
    [][/\ \A id \in Replicas :
            (Answered(id) /\ Unreadable(id)) =>
               /\ ret'.op \in {"get", "health", "delete"}
               /\ ret'.result = (IF ret'.op = "delete" THEN "False" ELSE "None")
               /\ ret'.sigs = {}
               /\ UNCHANGED <<rec, wpidFile, alive>>
       /\ (co.op = "stop" /\ co.pc = "read" /\ Unreadable(co.id) /\ co' # co) =>
               /\ co' = Idle
               /\ ret' = Return("stop", co.id, "None", NoRec, {}, FALSE)
               /\ UNCHANGED <<rec, wpidFile, alive>>]_vars

C16_Witness ==
    /\ co.op = "idle"
    /\ ret.op \in {"stop", "health"} /\ ret.result = "None"
    /\ rec[ret.id] = Corrupt

\* a request invalid for its mode: the label is no supported mode, or the mode is
\* platform_workload and platform_config is missing
InvalidForMode(request) ==
    \/ request.server_mode \notin ServerModes
    \/ request.server_mode = "platform_workload" /\ ~request.platform_config

\* C17: a creation request that is invalid for its mode is answered with an error
\* in the step that receives it, and that step registers no id, creates no record
\* and no pid file and starts no Worker; create_replica only ever runs for a
\* request that is valid for its mode.
C17_InvalidRequestLeavesNoState ==
    [][/\ (ret'.op = "post_replicas" /\ ret' # ret) =>
            /\ co.op = "idle" /\ co' = co
            /\ ret'.result \in {"400", "422"}
            /\ ret'.result = "422" <=> ret'.info.server_mode \notin ServerModes
            /\ UNCHANGED <<rec, wpidFile, nextId, alive, wk>>
       /\ co'.op = "create" => ~InvalidForMode(co'.request)]_vars

C17_Witness ==
    /\ ret.op = "post_replicas" /\ ret.result = "400"
    /\ ret.info.server_mode = "platform_workload"
    /\ ret.info.multibox /\ ~ret.info.platform_config
    /\ \A id \in Replicas : rec[id] = NoRec /\ wpidFile[id] = 0 /\ wk[id] = NoWorker
    /\ nextId = 1 /\ alive = {}

\* the status a reader of the record of id sees
StatusOf(store, id) ==
    IF store[id] = NoRec THEN None ELSE Get(store[id], "status", None)

WorkerStatuses == {"creating", "starting", "waiting_for_ready", "ready"}

\* the status the Worker writes before the work it does at pc
PhaseStatus(pc) ==
    IF pc = "provision" THEN "creating"
    ELSE IF pc \in {"launch", "launched"} THEN "starting"
    ELSE "waiting_for_ready"

\* C20: among the statuses written to one record, ready is preceded by creating
\* and, after it, starting, all three written by the Worker of that record (no
\* other writer ever stores a Worker status); and when the Worker does the work of
\* a phase (provisioning, launching, polling) on a record that exists, the last
\* status it wrote is the status of that phase.
C20_ReadyAfterCreatingThenStarting ==
    [][\A id \in Replicas :
         LET w == wk'[id].wrote IN
         /\ \A k \in 1..Len(w) :
              w[k] = "ready" =>
                 \E i \in 1..Len(w), j \in 1..Len(w) :
                    i < j /\ j < k /\ w[i] = "creating" /\ w[j] = "starting"
         /\ (StatusOf(rec', id) \in WorkerStatuses
               /\ StatusOf(rec', id) # StatusOf(rec, id)) =>
                 w = Append(wk[id].wrote, StatusOf(rec', id))
         /\ (wk[id].pc \in {"provision", "launch", "launched", "poll"}
               /\ wk'[id] # wk[id] /\ rec[id] # NoRec) =>
                 /\ wk[id].wrote # <<>>
                 /\ wk[id].wrote[Len(wk[id].wrote)] = PhaseStatus(wk[id].pc)]_vars

C20_Witness ==
    \E id \in Replicas :
       /\ StatusOf(rec, id) = "ready"
       /\ wk[id].wrote = <<"creating", "starting", "waiting_for_ready", "ready">>

\* C21: the status of a record becomes stopped only in a step of a stop request
\* for that record, and the statuses that request has written by then are
\* stopping and, after it, stopped.
C21_StoppedFollowsStopping ==
    [][\A id \in Replicas :
         (StatusOf(rec', id) = "stopped" /\ StatusOf(rec, id) # "stopped") =>
            /\ co.op \in {"stop", "delete"} /\ co.id = id
            /\ \E i \in 1..Len(co'.wrote), j \in 1..Len(co'.wrote) :
                  i < j /\ co'.wrote[i] = "stopping" /\ co'.wrote[j] = "stopped"]_vars

BringUpStatuses == {"pending", "creating", "starting", "waiting_for_ready"}

\* C22: a step of the Monitor changes nothing in a record whose status is
\* pending, creating, starting or waiting_for_ready.
C22_MonitorLeavesBringUpAlone ==
    [][\A id \in Replicas :
         (co.op = "monitor" /\ co' # co /\ rec'[id] # rec[id]) =>
            StatusOf(rec, id) \notin BringUpStatuses]_vars

\* C23: when a step of the Monitor marks a record failed, the status the record
\* holds at that moment is ready, waiting_for_ready or starting.
C23_MonitorFailsOnlyRunning ==
    [][\A id \in Replicas :
         (co.op = "monitor" /\ co' # co /\ rec'[id] # rec[id]
            /\ StatusOf(rec', id) = "failed") =>
               StatusOf(rec, id) \in MonitoredStatuses]_vars

\* the display status that belongs to a status
DisplayOf(status) ==
    IF status = "ready" THEN "Active"
    ELSE IF status \in {"failed", "unhealthy", "stopped"} THEN "Failed"
    ELSE "Pending"

\* C24: in every reachable state the display_status of a record is the projection
\* of its status: Active for ready, Failed for failed, unhealthy and stopped,
\* Pending for every other status.
C24_DisplayStatusIsProjection ==
    \A id \in Replicas :
       rec[id] # NoRec =>
          Get(rec[id], "display_status", None) = DisplayOf(StatusOf(rec, id))

\* C25: in every reachable state a record whose endpoint is not the sentinel NA
\* has status ready.
C25_EndpointOnlyWhenReady ==
    \A id \in Replicas :
       (rec[id] # NoRec /\ Get(rec[id], "endpoint", NA) # NA) =>
          StatusOf(rec, id) = "ready"

\* C26: in every reachable state a record whose status is starting holds the pid
\* of the workload process, which the Worker has launched by then.
C26_StartingHasWorkloadPid ==
    \A id \in Replicas :
       StatusOf(rec, id) = "starting" =>
          /\ Get(rec[id], "replica_pid", 0) = WorkloadPid(id)
          /\ wk[id].replica_pid = WorkloadPid(id)

\* C27: in every reachable state a record whose status is failed or unhealthy
\* holds a non-empty error_message.
C27_FailureHasErrorMessage ==
    \A id \in Replicas :
       StatusOf(rec, id) \in {"failed", "unhealthy"} =>
          Get(rec[id], "error_message", None) \notin {None, ""}

\* the Monitor has marked the record failed and the Worker has then written
\* unhealthy over it
C27_Witness ==
    \E id \in Replicas :
       /\ StatusOf(rec, id) = "unhealthy"
       /\ "died_at" \in DOMAIN rec[id]
       /\ rec[id].error_message = "Health check failed within timeout"

\* C28: the step the Worker takes after a raise during creating or starting
\* writes status failed, display_status Failed, endpoint NA and the exception
\* text as error_message into its record (when the record still exists) and ends
\* the Worker with a non-zero exit code; and a Worker that has exited by itself
\* has never left creating or starting as the status of its record.
C28_RaiseEndsInFailed ==
    [][\A id \in Replicas :
         /\ (wk[id].pc = "except" /\ wk'[id] # wk[id]) =>
               /\ wk'[id].pc = "exited" /\ wk'[id].exit # 0
               /\ rec[id] # NoRec =>
                     /\ rec'[id].status = "failed"
                     /\ rec'[id].display_status = "Failed"
                     /\ rec'[id].endpoint = NA
                     /\ rec'[id].error_message = wk[id].err
                     /\ wk[id].err # ""
         /\ wk'[id].pc = "exited" => StatusOf(rec', id) \notin {"creating", "starting"}]_vars

C28_Witness ==
    \E id \in Replicas :
       /\ wk[id].pc = "exited" /\ wk[id].exit = 1
       /\ wk[id].wrote = <<"creating", "starting", "failed">>
       /\ StatusOf(rec, id) = "failed"
       /\ rec[id].error_message = "Server process died on startup"

\* C29: a Worker whose workload advertises no base_url goes from starting
\* straight to ready, with endpoint NA and ready_at set; it never writes
\* waiting_for_ready, never probes the health endpoint, and exits with code 0.
C29_NoEndpointSkipsHealthWait ==
    [][\A id \in Replicas :
         (wk[id].pc \in {"branch", "diag"} /\ wk[id].base_url = None
            /\ wk'[id] # wk[id]) =>
               /\ wk[id].pc = "branch" =>
                     /\ wk'[id].pc = "diag"
                     /\ rec[id] # NoRec =>
                           /\ StatusOf(rec', id) = "ready"
                           /\ Get(rec'[id], "endpoint", None) = NA
                           /\ Get(rec'[id], "ready_at", FALSE) = TRUE
                           /\ wk'[id].wrote = <<"creating", "starting", "ready">>
               /\ wk[id].pc = "diag" =>
                     /\ wk'[id].pc = "exited" /\ wk'[id].exit = 0
                     /\ wk'[id].polls = 0
                     /\ \A k \in 1..Len(wk'[id].wrote) :
                           wk'[id].wrote[k] # "waiting_for_ready"]_vars

C29_Witness ==
    \E id \in Replicas :
       /\ wk[id].pc = "exited" /\ wk[id].exit = 0 /\ wk[id].base_url = None
       /\ wk[id].replica_pid = WorkloadPid(id)
       /\ wk[id].wrote = <<"creating", "starting", "ready">>
       /\ StatusOf(rec, id) = "ready" /\ rec[id].endpoint = NA

\* the record of id exists in status pending and no Worker has ever run for it
PendingWithoutWorker(id) ==
    rec[id] # NoRec /\ StatusOf(rec, id) = "pending" /\ wk[id] = NoWorker

\* C30: no record stays for ever in status pending without a Worker having run
\* for it; in particular not after the spawn of the Worker has failed.
C30_SpawnFailureIsRecorded ==
    \A id \in Replicas : []<>(~PendingWithoutWorker(id))

\* C31: the Monitor's liveness check classifies a pid as the health poll's
\* does (no such process is dead, permission denied is alive), so a step of
\* the Monitor never marks failed an entity whose workload process exists.
C31_MonitorNeverFailsLiveWorkload ==
    [][\A id \in Replicas :
        (/\ co.op = "monitor"
         /\ rec[id] \notin {NoRec, Corrupt}
         /\ rec'[id] \notin {NoRec, Corrupt}
         /\ rec[id].status # "failed"
         /\ rec'[id].status = "failed")
        => /\ Get(rec[id], "replica_pid", 0) \notin alive
           /\ ~IsProcessAlive(alive, Get(rec[id], "replica_pid", 0))]_vars

\* C32: poll_health_endpoint returns True only in an iteration whose GET was
\* answered 200; an iteration whose GET got another answer or a network error
\* leaves the poll running; it returns False only when the deadline has passed
\* or when a pid was given and the process is dead at the start of an
\* iteration, and then without another GET.
C32_PollEndsOnlyOn200DeadlineOrDeath ==
    [][(call.fn = "poll_health_endpoint" /\ call.result = "none" /\ call' # call) =>
        /\ call'.result = "True" =>
              (call'.attempt = call.attempt + 1 /\ call'.last = "200")
        /\ (call'.attempt = call.attempt + 1 /\ call'.last # "200") =>
              call'.result = "none"
        /\ call'.result = "False" =>
              /\ call'.attempt = call.attempt
              /\ \/ call.time >= call.deadline
                 \/ call.pid_given /\ (call.pid <= 0 \/ call.pid \notin alive)]_vars

\* a poll that went through a failed GET and then found its process dead
\* before the deadline
C32_Witness ==
    /\ call.fn = "poll_health_endpoint" /\ call.result = "False"
    /\ call.attempt > 0 /\ call.last = "ClientError"
    /\ call.time < call.deadline

\* C33: LocalServerHandle.stop sends SIGTERM first and SIGKILL only when the
\* process has not exited at the end of the grace period; it sends a signal
\* only to a process that exists and has not exited; it returns True only when
\* the handle has no process or the process has exited.
C33_StopEscalatesAfterGrace ==
    [][call.fn = "stop" =>
        \A id \in Replicas :
          /\ call'.h[id].sent # call.h[id].sent =>
                /\ call.h[id].process /\ ~call.h[id].returncode
                /\ HandlePid(id) \in alive
                /\ call'.h[id].sent \in {<<"SIGTERM">>, <<"SIGTERM", "SIGKILL">>}
                /\ call'.h[id].sent = <<"SIGTERM", "SIGKILL">> =>
                      call.h[id].waited = MaxGrace
          /\ call'.h[id].result = "True" =>
                (~call'.h[id].process \/ HandlePid(id) \notin alive')]_vars

\* a stop that had to escalate: both signals sent, the process gone, True returned
C33_Witness ==
    /\ call.fn = "stop"
    /\ \E id \in Replicas :
         /\ call.h[id].result = "True"
         /\ call.h[id].sent = <<"SIGTERM", "SIGKILL">>
         /\ HandlePid(id) \notin alive

\* C34: the Monitor is cancelled only while it sleeps between two ticks: the
\* step that cancels it finds no tick in progress and leaves the records
\* alone, and no tick is in progress once it is cancelled.
C34_CancelOnlyBetweenTicks ==
    [][/\ (mon = "running" /\ mon' = "cancelled") =>
             (co.op = "idle" /\ co.todo = {} /\ co' = co /\ rec' = rec)
       /\ mon' = "cancelled" => (co'.op # "monitor" /\ co'.todo = {})]_vars

\* the Monitor cancelled after a tick that marked an entity failed
C34_Witness ==
    /\ mon = "cancelled" /\ ret.op = "stop_monitoring"
    /\ \E id \in Replicas :
         /\ rec[id] \notin {NoRec, Corrupt}
         /\ rec[id].status = "failed"
         /\ Get(rec[id], "died_at", FALSE) = TRUE

\* C35: the listing of records holds exactly the records that can be read;
\* each step of the listing of entities keeps the views built so far, adds the
\* view of a record that can be read and leaves out, without ending the
\* listing, a record that cannot; the listing ends only by returning its views.
C35_ListingOmitsOnlyBadRecords ==
    [][/\ (co.op = "idle" /\ co'.op = "list") =>
            /\ DOMAIN co'.snap = {id \in Replicas : rec[id] \notin {NoRec, Corrupt}}
            /\ \A id \in DOMAIN co'.snap : co'.snap[id] = rec[id]
       /\ (co.op = "list" /\ co'.op = "list") =>
            \A id \in co.todo \ co'.todo :
                /\ co.state.views \subseteq co'.state.views
                /\ rec[id] \notin {NoRec, Corrupt} =>
                      \E v \in co'.state.views : v.replica_id = id
                /\ rec[id] \in {NoRec, Corrupt} => co'.state.views = co.state.views
       /\ (co.op = "list" /\ co'.op # "list") =>
            /\ co.todo = {}
            /\ ret'.op = "list" /\ ret'.result = "list"
            /\ ret'.info.views = co.state.views]_vars

\* a listing returned with the view of one entity while the record of the
\* other is corrupt and has no view
C35_Witness ==
    /\ ret.op = "list" /\ ret.result = "list" /\ ret.info.status = None
    /\ \E bad \in Replicas, good \in Replicas :
         /\ rec[bad] = Corrupt
         /\ rec[good] \notin {NoRec, Corrupt}
         /\ \E v \in ret.info.views : v.replica_id = good
         /\ \A v \in ret.info.views : v.replica_id # bad

InCmd(flag, cmd) == \E i \in 1..Len(cmd) : cmd[i] = flag

\* C36: the dispatcher raises for a label that is not one of the six modes and
\* otherwise builds the command with the one builder of the mode's family;
\* a replica command has neither --api_gateway nor --platform_workload, an
\* api_gateway command has --api_gateway, a platform_workload command has
\* --platform_workload, and --mock_backend is there exactly when mock_backend
\* was asked for.
C36_DispatcherBuildsModeCommand ==
    (call.fn = "_build_cmd_for_mode" /\ call.done) =>
        LET r == call.result IN
        /\ (r.raised = "ValueError") <=> (call.mode \notin CmdModes)
        /\ call.mode \in CmdModes =>
             /\ call.mode \in {"replica", "replica_mock"} =>
                    /\ r.builder = "_build_replica_cmd"
                    /\ ~InCmd("--api_gateway", r.cmd)
                    /\ ~InCmd("--platform_workload", r.cmd)
             /\ call.mode \in {"api_gateway", "api_gateway_mock"} =>
                    /\ r.builder = "_build_api_gateway_cmd"
                    /\ InCmd("--api_gateway", r.cmd)
             /\ call.mode \in {"platform_workload", "platform_workload_mock"} =>
                    /\ r.builder = "_build_platform_workload_cmd"
                    /\ InCmd("--platform_workload", r.cmd)
             /\ InCmd("--mock_backend", r.cmd) <=> call.kw.mock_backend

\* the command of a mock api gateway, built with both flags
C36_Witness ==
    /\ call.fn = "_build_cmd_for_mode" /\ call.done
    /\ call.mode = "api_gateway_mock" /\ call.kw.mock_backend
    /\ InCmd("--api_gateway", call.result.cmd)
    /\ InCmd("--mock_backend", call.result.cmd)

\* the Worker of the entity was killed and its record has a bring-up status
KilledInBringUp(id) ==
    /\ id \in hist.killed
    /\ WorkerPid(id) \notin alive
    /\ rec[id] # NoRec
    /\ rec[id].status \in BringUpStatuses

\* C37: a record whose Worker was killed before it wrote ready, unhealthy or
\* failed does not keep its bring-up status forever, given a Monitor that keeps
\* ticking: it is marked failed (or, read in the claim's favour, stopped or
\* deleted by a request).
C37_KilledWorkerIsNoticed ==
    \A id \in Replicas : KilledInBringUp(id) ~> ~KilledInBringUp(id)

\* C38: once a StopEntity or DeleteEntity has returned for an entity, no
\* workload process launched for it is alive, wherever the Worker was in its
\* bring-up; stated for the forced stop and the deletion, whose SIGKILL no
\* process can ignore.
C38_NoWorkloadAfterStopOrDelete ==
    (/\ ret.force
     /\ \/ ret.op = "stop" /\ ret.result = "info"
        \/ ret.op = "delete" /\ ret.result = "True")
    => WorkloadPid(ret.id) \notin alive

\* C39: every view returned by a listing called with a status filter has that
\* status, whatever the Workers write while the listing runs.
C39_FilteredViewsMatchFilter ==
    (ret.op = "list" /\ ret.result = "list" /\ ret.info.status # None) =>
        \A v \in ret.info.views : v.status = ret.info.status

\* C40: in the in-memory manager, once stop_replica has returned for a replica
\* its status is stopped and stays stopped.
C40_StoppedStaysStopped ==
    call.fn = "ReplicaManager" =>
        \A id \in Replicas :
            call.replicas[id].stop = "returned" => call.replicas[id].status = "stopped"

\* ------------------------------------------------------- lifecycle properties
Terminal == {"stopped", "failed"}

HasRec(id) == rec[id] # NoRec

\* C1: once a record's status is stopped or failed, no later write (Worker update,
\* Monitor tick, StopEntity) sets it to any other status.
C1_NoTerminalRegression ==
    [][\A id \in Replicas :
          (HasRec(id) /\ rec[id].status \in Terminal /\ rec'[id] # NoRec)
              => rec'[id].status \in Terminal]_vars

\* The entries of the tick's listing that were ready with a recorded workload pid
\* whose process was dead when the tick listed the records
DeadWhileReady ==
    {id \in DOMAIN co.snap :
        /\ Get(co.snap[id], "status", None) = "ready"
        /\ Get(co.snap[id], "replica_pid", 0) # 0
        /\ Get(co.snap[id], "replica_pid", 0) \notin hist.aliveAtList}

\* C3: a Monitor tick that starts after the recorded workload process of a ready
\* entity has died ends with that record failed, endpoint NA and an error message.
C3_MonitorMarksDeadReadyFailed ==
    (co.op = "monitor" /\ co.todo = {}) =>
        \A id \in DeadWhileReady :
            /\ HasRec(id)
            /\ rec[id].status = "failed"
            /\ rec[id].endpoint = NA
            /\ Get(rec[id], "error_message", None) \notin {None, ""}

C3_Witness ==
    co.op = "monitor" /\ co.todo = {} /\ DeadWhileReady # {}

\* C5: a StopEntity(force=false) on an entity with a live process returns status
\* stopped, and at its return neither recorded pid is alive.
C5_GracefulStopLeavesNoProcess ==
    (ret.op = "stop" /\ ~ret.force /\ ret.live) =>
        /\ ret.result = "info"
        /\ ret.info.status = "stopped"
        /\ wpidFile[ret.id] \notin alive
        /\ Get(rec[ret.id], "replica_pid", 0) \notin alive

\* C6: the record CreateEntity returns, and the one a GetEntity right after it
\* returns, has status pending and endpoint NA.
C6_CreateThenGetPending ==
    (ret.op = "create" \/ (ret.op = "get" /\ ret.follows = "create")) =>
        /\ ret.result = "info"
        /\ ret.info.status = "pending"
        /\ ret.info.endpoint = NA

\* C7: after DeleteEntity has returned true the state file and the worker pid file
\* of that id are absent, and stay absent whatever runs afterwards.
C7_DeletedStaysAbsent ==
    \A id \in hist.deleted : rec[id] = NoRec /\ wpidFile[id] = 0

C7_Witness ==
    \E id \in hist.deleted : ret.op = "get" /\ ret.id = id /\ ret.follows = "delete"

\* C8: DeleteEntity on an id without a record (never created, or deleted before)
\* returns false, has sent no signal, and leaves no state file and no pid file.
C8_DeleteAbsentIsFalse ==
    (ret.op = "delete" /\ ~ret.existed) =>
        /\ ret.result = "False"
        /\ ret.sigs = {}
        /\ rec[ret.id] = NoRec
        /\ wpidFile[ret.id] = 0

C8_Witness ==
    ret.op = "delete" /\ ~ret.existed /\ ret.id \in hist.deleted

ReadyOrUnhealthy(id) ==
    /\ HasRec(id)
    /\ \/ rec[id].status = "ready" /\ rec[id].endpoint # NA
       \/ /\ rec[id].status = "unhealthy"
          /\ Get(rec[id], "error_message", None) \notin {None, ""}

\* The bring-up of the entity was ended from outside the Worker: a stop or delete
\* request, or a raise in the Worker / a Monitor tick that recorded failed
EndedOtherwise(id) ==
    \/ ~HasRec(id)
    \/ rec[id].status \in Terminal

\* C4: every created entity eventually is ready with an endpoint other than NA or
\* unhealthy with an error message, and no execution leaves the record in a
\* bring-up status forever; read in the claim's favour, so that a record that is
\* failed, stopped or deleted has also left the bring-up.
C4_BringUpEnds ==
    \A id \in Replicas :
        HasRec(id) ~> (ReadyOrUnhealthy(id) \/ EndedOtherwise(id))

\* every client has made all its update_replica_state calls
AllUpdatesDone == \A q \in Clients : cl[q].done = MaxUpdates

\* C12: after any sequence of update_replica_state calls on one id, from any
\* processes, a get_replica_state after the last call returns the creation record
\* overridden field by field by the updates in the order they took the lock
\* (last write wins, unnamed fields kept), and no write of the file carries an
\* updated_at smaller than that of a write before it.
C12_LastWriteWins ==
    [][/\ \A p \in Clients :
            (/\ AllUpdatesDone
             /\ cl[p].pc = "r_load" /\ cl[p].op = "get" /\ cl'[p].pc = "idle")
                => /\ cl'[p].result # NoRec
                   /\ Unstamped(cl'[p].result) = sfile.expected
       /\ \A new \in sfile'.committed \ sfile.committed :
            \A old \in sfile.committed : new.updated_at >= old.updated_at]_vars

\* both clients made all their updates while the clock advanced, and a read after
\* the last of them returned a record whose shared field is the one of the client
\* that took the lock last
C12_Witness ==
    \E p, q \in Clients :
        /\ p # q
        /\ AllUpdatesDone
        /\ cl[p].pc = "idle" /\ cl[p].op = "get"
        /\ cl[p].result \in sfile.committed
        /\ cl[p].result.status = Field(q)
        /\ cl[p].result[Field(p)] = MaxUpdates
        /\ cl[p].result[Field(q)] = MaxUpdates
        /\ cl[p].result.updated_at = MaxClock

\* ------------------------------------------------------------- API properties
\* C11: create_replica_state for an id that already has a record fails and
\* leaves that record as it was: it never overwrites or resets it.
C11_CreateKeepsExisting ==
    (ret.op = "create_replica_state" /\ ret.existed) => rec[ret.id] = ret.before

====
